---------------------------- MODULE Spec2Model ----------------------------
(***************************************************************************)
(* friend_reader: a presence server (src/server/src/main.rs) and a reader  *)
(* client (src/client/src/main.rs) sharing the wire types of               *)
(* src/shared/src/lib.rs.                                                  *)
(*                                                                         *)
(* Specifications:                                                         *)
(*   Spec      the server over time: position updates, snapshots, the      *)
(*             sweeper and the clock (seconds), each handler a whole step  *)
(*             (its registry access runs under the RwLock).                *)
(*   SpecReq   the server's five endpoints with every request payload,     *)
(*             over a short stretch of time.                               *)
(*   SpecLock  the server's threads step by step: handlers and the sweeper *)
(*             taking and releasing the RwLock around the registry.        *)
(*   SpecClient  one reader's client from login on, frame by frame,        *)
(*             against the server: connecting, pushing and pulling over a  *)
(*             network that may fail, the server restarting.               *)
(*   SpecCadence  the frames of a connected reader who scrolls, with       *)
(*             requests that take time (milliseconds) and may fail.        *)
(*   SpecFollow  a connected reader who follows another one and scrolls    *)
(*             by hand; SpecFollowLive the same reader giving no input,    *)
(*             frames being weakly fair; SpecFollowStep the follow step    *)
(*             on its own, from every distance around its thresholds.      *)
(*   SpecLayout  a connected reader who changes font size, paragraph       *)
(*             spacing and text width, and so has the document laid out    *)
(*             anew around an anchor.                                      *)
(*   SpecRelayout  a connected reader who changes font size, width and     *)
(*             font family in steps around the relayout tolerances.        *)
(*   SpecPeers  a reader who pulls and follows a reader whose positions    *)
(*             lie inside, at the end of and beyond the document, the      *)
(*             document with elements or without.                          *)
(*   SpecLockFair  the threads of SpecLock under fair scheduling.          *)
(*   SpecReads  the server's four GET endpoints next to updates, the       *)
(*             sweeper and the clock.                                      *)
(*   SpecResume  a reader who follows a reader who is swept from the       *)
(*             registry and publishes again.                               *)
(*   SpecHeadings  the reader of SpecLayout with a document of many        *)
(*             headings.                                                   *)
(***************************************************************************)
EXTENDS Integers, Sequences, FiniteSets, TLC

(***************************************************************************)
(* Option<T>: None is the empty sequence, Some(x) the one-element one.     *)
(***************************************************************************)
None == <<>>

Some(x) == <<x>>

IsSome(o) == Len(o) = 1

Unwrap(o) == o[1]

(***************************************************************************)
(* Bounds of the model.                                                    *)
(***************************************************************************)
\* Under Spec the server clock runs from 0 to MaxTime seconds.
MaxTime == 16

\* Under SpecReq the server clock runs from 0 to MaxReqTime seconds.
MaxReqTime == 1

\* The sweeper runs at most MaxSweepLag seconds after its interval fires.
MaxSweepLag == 1

\* Under SpecLock the server clock moves in jumps of LockClockStep seconds,
\* up to MaxLockTime.
LockClockStep == 11

MaxLockTime == 11

\* Under SpecClient the client clock runs from 0 to MaxCliTime milliseconds,
\* in steps of NetMs: the time a request may take and the time between two
\* frames.
MaxCliTime == 375

\* Under SpecCadence the client clock runs from 0 to MaxCadenceTime.
MaxCadenceTime == 500

\* SpecFollowStep: the followed reader's start element is 0..MaxPeerElement
\* (the document has elements 0..4)
MaxPeerElement == 5

NetMs == 125

(***************************************************************************)
(* Program constants.                                                      *)
(***************************************************************************)
\* heartbeat_cleanup: Duration::from_secs(10)
EXPIRY_SECS == 10

\* heartbeat_cleanup: time::interval(Duration::from_secs(5))
SWEEP_INTERVAL_SECS == 5

STATUS_OK == 200

STATUS_UNAUTHORIZED == 401

STATUS_NOT_FOUND == 404

(***************************************************************************)
(* Inputs.                                                                 *)
(***************************************************************************)
Names == {"ann", "bob"}

Colors == {"#6496ff", "#ff0000"}

Passwords == {"pw", "bad"}

\* hex::encode(Sha256(p)): the digests of the passwords above.
Sha256Hex(p) ==
    CASE p = "pw"  -> "30c952fab122c3f9759f02a6d95c3758b246b4fee239957b2d4fee46e26170c4"
      [] p = "bad" -> "2f05d4b689d270cafb02285f35f44866f7dc8a2d368a3f9d1124373eeab31fb1"
      [] p = ""    -> "e3b0c44298fc1c149afbf4c8996fb92427ae41e4649b934ca495991b7852b855"

\* Option<String> hashes a request may carry.
RequestHashes == {None} \cup {Some(Sha256Hex(p)) : p \in Passwords}

\* shared::Position; the percents are f32, kept here as hundredths.
Position(s, e) ==
    [start_element |-> s, start_percent |-> 0, end_element |-> e, end_percent |-> 100]

Positions == {Position(0, 1), Position(7, 9)}

\* shared::ConnectedUser
ConnectedUser(n, c, p) == [name |-> n, color |-> c, position |-> p]

\* shared::PositionUpdate
PositionUpdate(n, c, p, h) ==
    [name |-> n, color |-> c, position |-> p, password_hash |-> h]

PositionUpdates ==
    {PositionUpdate(n, c, p, h) : n \in Names, c \in Colors, p \in Positions,
                                  h \in RequestHashes}

\* Image ids requested from /images/{id}; the server holds the first.
ImageIds == {"cover.png", "missing.gif"}

StoredImages == {"cover.png"}

\* shared::AuthRequest: the query of the GET endpoints
AuthRequest(h) == [password_hash |-> h]

\* shared::DocumentElement: its kind and the length of its content (of its
\* id for an image)
Element(kind, len) == [kind |-> kind, len |-> len]

\* shared::Document as parse_epub returns it
ServerDocument ==
    [metadata |-> [title |-> Some("Kokoro")],
     elements |-> <<Element("heading", 9), Element("text", 2000),
                    Element("image", 9), Element("text", 3000),
                    Element("text", 1200)>>]

VARIABLES
    password_hash,  \* ServerState.password_hash: Option<String>
    document,       \* ServerState.document
    users,          \* ServerState.users: name -> UserData
    srv_now,        \* the server's monotonic clock (Instant::now()), seconds
    next_sweep,     \* when the sweeper's interval fires next
    lock,           \* the RwLock around users: its writer and its readers
    pc,             \* server thread -> where it stands in its handler
    task,           \* server thread -> the request and locals it holds
    last,           \* the step taken last: its request, status and output
    state,          \* ReaderApp.state: Login, Loading, Reader(ReaderState), Error
    cli_now,        \* the client's monotonic clock (Instant::now()), milliseconds
    tick,           \* history: what the client's latest step decided and sent
    view,           \* history: what the client's latest frame was given and laid out
    tracked,        \* history: the name whose upserts are followed
    run_start,      \* history: when tracked's current run of upserts began, or -1
    last_upsert     \* history: when tracked was upserted last in that run, or -1

config_vars == <<password_hash, document>>

thread_vars == <<lock, pc, task>>

client_vars == <<state, cli_now, tick, view>>

hist_vars == <<tracked, run_start, last_upsert>>

vars == <<password_hash, document, users, srv_now, next_sweep, lock, pc, task, last,
          state, cli_now, tick, view, tracked, run_start, last_upsert>>

(***************************************************************************)
(* History of one name's upserts.  A run begins with an authorized upsert  *)
(* of the name and lasts for as long as the name is upserted again within  *)
(* 10 s of its previous upsert; it is over once the clock is more than     *)
(* 10 s past the latest upsert.  Each step says which names it upserted.   *)
(***************************************************************************)
HistoryInit ==
    /\ tracked \in Names
    /\ run_start = -1
    /\ last_upsert = -1

History(upserted) ==
    LET over == run_start # -1 /\ srv_now' - last_upsert > 10
    IN  /\ tracked' = tracked
        /\ run_start' = IF tracked \in upserted
                        THEN (IF run_start = -1 THEN srv_now' ELSE run_start)
                        ELSE (IF over THEN -1 ELSE run_start)
        /\ last_upsert' = IF tracked \in upserted THEN srv_now'
                          ELSE IF over THEN -1
                          ELSE last_upsert

(***************************************************************************)
(* Server: src/server/src/main.rs                                          *)
(***************************************************************************)

\* UserData
UserData(u, t) == [user |-> u, last_heartbeat |-> t]

\* check_auth with a missing hash let through
check_auth_MissingPasses(expected, provided) ==
    IF ~IsSome(expected) THEN TRUE
    ELSE IF IsSome(provided) THEN Unwrap(expected) = Unwrap(provided)
    ELSE TRUE

\* check_auth
check_auth(expected, provided) ==
    IF ~IsSome(expected) THEN TRUE
    ELSE IF IsSome(provided) THEN Unwrap(expected) = Unwrap(provided)
    ELSE FALSE

\* HashMap::get
MapGet(m, k) == IF k \in DOMAIN m THEN Some(m[k]) ELSE None

\* HashMap::insert
MapInsert(m, k, v) == [x \in DOMAIN m \cup {k} |-> IF x = k THEN v ELSE m[x]]

\* HashMap::retain; keep is the set of keys the closure answers true for
MapRetain(m, keep) == [x \in {k \in DOMAIN m : k \in keep} |-> m[x]]

\* What a step leaves behind: the endpoint, its request, the status returned
\* and the output (the response body; for an insert the value it displaced;
\* for a sweep the names it logged as removed).
Response(op, req, status, out) ==
    [op |-> op, req |-> req, status |-> status, out |-> out]

\* main: the server's state after start-up, with or without --password
ServerInit ==
    /\ password_hash \in {None} \cup {Some(Sha256Hex("pw"))}
    /\ document = ServerDocument
    /\ users = << >>
    /\ srv_now = 0
    /\ next_sweep = 0
    /\ last = Response("start", None, STATUS_OK, None)

\* health_handler: the response
health_response ==
    Response("health", None, STATUS_OK,
             [status |-> "ok", requires_password |-> IsSome(password_hash)])

\* document_handler: the response
document_response(auth) ==
    IF ~check_auth(password_hash, auth.password_hash)
    THEN Response("document", auth, STATUS_UNAUTHORIZED, None)
    ELSE Response("document", auth, STATUS_OK, document)

\* image_handler: the response
image_response(id, auth) ==
    IF ~check_auth(password_hash, auth.password_hash)
    THEN Response("images", [id |-> id, password_hash |-> auth.password_hash],
                  STATUS_UNAUTHORIZED, None)
    ELSE IF id \notin StoredImages
    THEN Response("images", [id |-> id, password_hash |-> auth.password_hash],
                  STATUS_NOT_FOUND, None)
    ELSE Response("images", [id |-> id, password_hash |-> auth.password_hash],
                  STATUS_OK, id)

\* positions_handler: user_map, name -> ConnectedUser
Snapshot(reg) == [k \in DOMAIN reg |-> reg[k].user]

\* positions_handler: the response
positions_response(reg, auth) ==
    IF ~check_auth(password_hash, auth.password_hash)
    THEN Response("positions", auth, STATUS_UNAUTHORIZED, None)
    ELSE Response("positions", auth, STATUS_OK, Snapshot(reg))

\* the insert stamping a heartbeat only when the name is new
update_position_insert_KeepsHeartbeat(reg, update, now) ==
    MapInsert(reg, update.name,
              UserData(ConnectedUser(update.name, update.color, update.position),
                       IF update.name \in DOMAIN reg
                       THEN reg[update.name].last_heartbeat
                       ELSE now))

\* the insert merging into a stored record: the colour stays
update_position_insert_Merges(reg, update, now) ==
    MapInsert(reg, update.name,
              UserData(ConnectedUser(update.name,
                                     IF update.name \in DOMAIN reg
                                     THEN reg[update.name].user.color
                                     ELSE update.color,
                                     update.position),
                       now))

\* the insert under a key made of the name and the colour: a record for
\* each reader of a name
update_position_insert_KeyedByReader(reg, update, now) ==
    MapInsert(reg, update.name \o update.color,
              UserData(ConnectedUser(update.name, update.color, update.position), now))

\* the insert under the colour as key
update_position_insert_KeyedByColor(reg, update, now) ==
    MapInsert(reg, update.color,
              UserData(ConnectedUser(update.name, update.color, update.position), now))

\* update_position_handler: users.insert(user_key, UserData {..})
update_position_insert(reg, update, now) ==
    MapInsert(reg, update.name,
              UserData(ConnectedUser(update.name, update.color, update.position), now))

\* the handler writing the record before it checks the hash
update_position_users_InsertsFirst(reg, update, now) ==
    update_position_insert(reg, update, now)

\* update_position_handler: the registry it leaves
update_position_users(reg, update, now) ==
    IF ~check_auth(password_hash, update.password_hash)
    THEN reg
    ELSE update_position_insert(reg, update, now)

\* update_position_handler: the response
update_position_response(reg, update) ==
    IF ~check_auth(password_hash, update.password_hash)
    THEN Response("update_position", update, STATUS_UNAUTHORIZED, None)
    ELSE Response("update_position", update, STATUS_OK, MapGet(reg, update.name))

\* The names a request upserts: its own when the gate lets it through.
Upserts(update) ==
    IF check_auth(password_hash, update.password_hash) THEN {update.name} ELSE {}

\* the closure removing a record from 10 s on
SweepKeeps_From10(now, data) == ~(now - data.last_heartbeat >= EXPIRY_SECS)

\* the closure removing a record only once it is over 15 s old
SweepKeeps_Over15(now, data) ==
    ~(now - data.last_heartbeat > EXPIRY_SECS + SWEEP_INTERVAL_SECS)

\* heartbeat_cleanup: the closure given to retain
SweepKeeps(now, data) == ~(now - data.last_heartbeat > EXPIRY_SECS)

\* heartbeat_cleanup: the keys retain keeps
SweepKept(reg, now) == {key \in DOMAIN reg : SweepKeeps(now, reg[key])}

(***************************************************************************)
(* The handlers as whole steps.                                            *)
(***************************************************************************)
health_handler ==
    /\ last' = health_response
    /\ UNCHANGED <<client_vars, config_vars, users, srv_now, next_sweep, thread_vars>>
    /\ History({})

document_handler(auth) ==
    /\ last' = document_response(auth)
    /\ UNCHANGED <<client_vars, config_vars, users, srv_now, next_sweep, thread_vars>>
    /\ History({})

image_handler(id, auth) ==
    /\ last' = image_response(id, auth)
    /\ UNCHANGED <<client_vars, config_vars, users, srv_now, next_sweep, thread_vars>>
    /\ History({})

\* a snapshot that stamps every record it returns
positions_handler_Refreshes(auth) ==
    /\ last' = positions_response(users, auth)
    /\ users' = IF check_auth(password_hash, auth.password_hash)
                THEN [k \in DOMAIN users |-> UserData(users[k].user, srv_now)]
                ELSE users
    /\ UNCHANGED <<client_vars, config_vars, srv_now, next_sweep, thread_vars>>
    /\ History({})

positions_handler(auth) ==
    /\ last' = positions_response(users, auth)
    /\ UNCHANGED <<client_vars, config_vars, users, srv_now, next_sweep, thread_vars>>
    /\ History({})

update_position_handler(update) ==
    /\ users' = update_position_users(users, update, srv_now)
    /\ last' = update_position_response(users, update)
    /\ UNCHANGED <<client_vars, config_vars, srv_now, next_sweep, thread_vars>>
    /\ History(Upserts(update))

\* heartbeat_cleanup: one turn of the loop, once the interval has fired
heartbeat_cleanup ==
    /\ srv_now >= next_sweep
    /\ LET now == srv_now
       IN  /\ users' = MapRetain(users, SweepKept(users, now))
           /\ last' = Response("sweep", None, STATUS_OK,
                               DOMAIN users \ SweepKept(users, now))
    /\ next_sweep' = next_sweep + SWEEP_INTERVAL_SECS
    /\ UNCHANGED <<client_vars, config_vars, srv_now, thread_vars>>
    /\ History({})

\* step seconds pass on the server, up to the horizon; the sweeper is not
\* kept waiting longer than MaxSweepLag.
AdvanceClock(step, horizon) ==
    /\ srv_now + step <= horizon
    /\ srv_now < next_sweep + MaxSweepLag
    /\ srv_now' = srv_now + step
    /\ last' = Response("clock", None, STATUS_OK, None)
    /\ UNCHANGED <<client_vars, config_vars, users, next_sweep, thread_vars>>
    /\ History({})

(***************************************************************************)
(* The server's threads step by step (SpecLock).                           *)
(***************************************************************************)
Writers == {"w1", "w2"}

Readers == {"r1"}

Sweeper == "sweeper"

Threads == Writers \cup Readers \cup {Sweeper}

\* RwLock::new
LockFree == [writer |-> None, readers |-> {}]

ThreadsInit ==
    /\ lock = LockFree
    /\ pc = [t \in Threads |-> "idle"]
    /\ task = [t \in Threads |-> None]

Step == Response("step", None, STATUS_OK, None)

\* RwLock::write returns to a thread only while nobody holds the lock;
\* here it returns although readers hold it
write_available_IgnoresReaders(l) == l.writer = None

\* RwLock::write returns to a thread only while nobody holds the lock
write_available(l) == l.writer = None /\ l.readers = {}

\* RwLock::read returns to a thread only while no writer holds the lock
read_available(l) == l.writer = None

\* update_position_handler, up to the gate: 401, or on to users.write()
update_begin(t, update) ==
    /\ pc[t] = "idle"
    /\ IF ~check_auth(password_hash, update.password_hash)
       THEN /\ last' = update_position_response(users, update)
            /\ UNCHANGED <<pc, task>>
       ELSE /\ pc' = [pc EXCEPT ![t] = "w_lock"]
            /\ task' = [task EXCEPT ![t] = Some([update |-> update, old |-> None])]
            /\ last' = Step
    /\ UNCHANGED <<client_vars, config_vars, users, srv_now, next_sweep, lock>>
    /\ History({})

\* update_position_handler: users.write() returns the guard
update_lock(t) ==
    /\ pc[t] = "w_lock"
    /\ write_available(lock)
    /\ lock' = [lock EXCEPT !.writer = Some(t)]
    /\ pc' = [pc EXCEPT ![t] = "w_insert"]
    /\ last' = Step
    /\ UNCHANGED <<client_vars, config_vars, users, srv_now, next_sweep, task>>
    /\ History({})

\* update_position_handler: insert begins to store the value; over a stored
\* record the name and colour are written first
update_insert_begin(t) ==
    /\ pc[t] = "w_insert"
    /\ LET update == Unwrap(task[t]).update
       IN  /\ users' = IF update.name \in DOMAIN users
                       THEN [users EXCEPT ![update.name].user.name = update.name,
                                          ![update.name].user.color = update.color]
                       ELSE users
           /\ task' = [task EXCEPT ![t] =
                          Some([update |-> update, old |-> MapGet(users, update.name)])]
    /\ pc' = [pc EXCEPT ![t] = "w_store"]
    /\ last' = Step
    /\ UNCHANGED <<client_vars, config_vars, srv_now, next_sweep, lock>>
    /\ History({})

\* update_position_handler: insert completes, the guard is dropped, 200
update_insert_end(t) ==
    /\ pc[t] = "w_store"
    /\ lock.writer = Some(t)
    /\ LET update == Unwrap(task[t]).update
       IN  /\ users' = update_position_insert(users, update, srv_now)
           /\ last' = Response("update_position", update, STATUS_OK, Unwrap(task[t]).old)
    /\ lock' = [lock EXCEPT !.writer = None]
    /\ pc' = [pc EXCEPT ![t] = "idle"]
    /\ task' = [task EXCEPT ![t] = None]
    /\ UNCHANGED <<client_vars, config_vars, srv_now, next_sweep>>
    /\ History({Unwrap(task[t]).update.name})

\* positions_handler, up to the gate: 401, or on to users.read()
positions_begin(t, auth) ==
    /\ pc[t] = "idle"
    /\ IF ~check_auth(password_hash, auth.password_hash)
       THEN /\ last' = positions_response(users, auth)
            /\ UNCHANGED <<pc, task>>
       ELSE /\ pc' = [pc EXCEPT ![t] = "r_lock"]
            /\ task' = [task EXCEPT ![t] = Some([auth |-> auth, user_map |-> << >>])]
            /\ last' = Step
    /\ UNCHANGED <<client_vars, config_vars, users, srv_now, next_sweep, lock>>
    /\ History({})

\* positions_handler: users.read() returns the guard
positions_lock(t) ==
    /\ pc[t] = "r_lock"
    /\ read_available(lock)
    /\ lock' = [lock EXCEPT !.readers = @ \cup {t}]
    /\ pc' = [pc EXCEPT ![t] = "r_iter"]
    /\ last' = Step
    /\ UNCHANGED <<client_vars, config_vars, users, srv_now, next_sweep, task>>
    /\ History({})

\* positions_handler: users.iter().map(..) clones one more record
positions_iter(t) ==
    /\ pc[t] = "r_iter"
    /\ \E k \in DOMAIN users \ DOMAIN Unwrap(task[t]).user_map :
          task' = [task EXCEPT ![t] =
                      Some([auth |-> Unwrap(task[t]).auth,
                            user_map |-> MapInsert(Unwrap(task[t]).user_map, k,
                                                   users[k].user)])]
    /\ last' = Step
    /\ UNCHANGED <<client_vars, config_vars, users, srv_now, next_sweep, lock, pc>>
    /\ History({})

\* positions_handler: the iterator is exhausted, the response is built and
\* the guard dropped
positions_end(t) ==
    /\ pc[t] = "r_iter"
    /\ DOMAIN users \subseteq DOMAIN Unwrap(task[t]).user_map
    /\ last' = Response("positions", Unwrap(task[t]).auth, STATUS_OK,
                        Unwrap(task[t]).user_map)
    /\ lock' = [lock EXCEPT !.readers = @ \ {t}]
    /\ pc' = [pc EXCEPT ![t] = "idle"]
    /\ task' = [task EXCEPT ![t] = None]
    /\ UNCHANGED <<client_vars, config_vars, users, srv_now, next_sweep>>
    /\ History({})

\* heartbeat_cleanup: interval.tick() returns
sweep_tick ==
    /\ pc[Sweeper] = "idle"
    /\ srv_now >= next_sweep
    /\ next_sweep' = next_sweep + SWEEP_INTERVAL_SECS
    /\ pc' = [pc EXCEPT ![Sweeper] = "s_lock"]
    /\ last' = Step
    /\ UNCHANGED <<client_vars, config_vars, users, srv_now, lock, task>>
    /\ History({})

\* heartbeat_cleanup: users.write() returns the guard, now is read
sweep_lock ==
    /\ pc[Sweeper] = "s_lock"
    /\ write_available(lock)
    /\ lock' = [lock EXCEPT !.writer = Some(Sweeper)]
    /\ pc' = [pc EXCEPT ![Sweeper] = "s_retain"]
    /\ task' = [task EXCEPT ![Sweeper] = Some([now |-> srv_now])]
    /\ last' = Step
    /\ UNCHANGED <<client_vars, config_vars, users, srv_now, next_sweep>>
    /\ History({})

\* heartbeat_cleanup: retain runs and the guard is kept while the loop
\* waits for the next tick
sweep_retain_KeepsGuard ==
    /\ pc[Sweeper] = "s_retain"
    /\ LET now == Unwrap(task[Sweeper]).now
       IN  /\ users' = MapRetain(users, SweepKept(users, now))
           /\ last' = Response("sweep", None, STATUS_OK,
                               DOMAIN users \ SweepKept(users, now))
    /\ pc' = [pc EXCEPT ![Sweeper] = "idle"]
    /\ task' = [task EXCEPT ![Sweeper] = None]
    /\ UNCHANGED <<client_vars, config_vars, srv_now, next_sweep, lock>>
    /\ History({})

\* heartbeat_cleanup: retain runs, the guard is dropped
sweep_retain ==
    /\ pc[Sweeper] = "s_retain"
    /\ LET now == Unwrap(task[Sweeper]).now
       IN  /\ users' = MapRetain(users, SweepKept(users, now))
           /\ last' = Response("sweep", None, STATUS_OK,
                               DOMAIN users \ SweepKept(users, now))
    /\ lock' = [lock EXCEPT !.writer = None]
    /\ pc' = [pc EXCEPT ![Sweeper] = "idle"]
    /\ task' = [task EXCEPT ![Sweeper] = None]
    /\ UNCHANGED <<client_vars, config_vars, srv_now, next_sweep>>
    /\ History({})

\* time passes while the threads stand where they are
lock_clock ==
    /\ srv_now + LockClockStep <= MaxLockTime
    /\ srv_now < next_sweep + MaxSweepLag
    /\ srv_now' = srv_now + LockClockStep
    /\ last' = Step
    /\ UNCHANGED <<client_vars, config_vars, users, next_sweep, thread_vars>>
    /\ History({})

(***************************************************************************)
(* Client: src/client/src/main.rs                                          *)
(* Lengths are f32 points in the source; here they are integers, tenths of *)
(* a point (600.0 is 6000).  Instants are milliseconds.  Indices are       *)
(* 0-based as in the source; a Vec is a sequence, v[i + 1] its element i.  *)
(***************************************************************************)
PUSH_INTERVAL_MS == 250

FETCH_INTERVAL_MS == 250

MINIMAP_WIDTH == 900

MIN_SIDE_MARGIN == 500

MIN_CONTENT_WIDTH == 2000

INITIAL_CONTENT_WIDTH == 6000

INITIAL_FONT_SIZE == 180

INITIAL_PARAGRAPH_SPACING == 100

SCROLL_BOTTOM_SLACK == 1000

KEY_SCROLL == 500

FOLLOW_JUMP_DISTANCE == 20000

FOLLOW_FAST_DISTANCE == 5000

FOLLOW_FAST_SPEED == 500

FOLLOW_SLOW_SPEED == 200

HEADING_PREFIX_LEN == 18

IMAGE_WRAP_LEN == 9

\* f32::max, f32::min, f32::abs, f32::signum on the integers
Max(a, b) == IF a >= b THEN a ELSE b

Min(a, b) == IF a <= b THEN a ELSE b

Abs(a) == IF a >= 0 THEN a ELSE -a

Signum(a) == IF a >= 0 THEN 1 ELSE -1

\* str::trim on the display names entered
Trim(name) == IF name = " " THEN "" ELSE name

\* format!("#{:02x}{:02x}{:02x}", r, g, b) of the colours picked
HexColor(rgb) ==
    CASE rgb = <<100, 150, 255>> -> "#6496ff"
      [] rgb = <<255, 0, 0>>     -> "#ff0000"

\* egui's layout_job(job).size().y: the text wrapped at max_width, a row
\* holding max_width / (font_size / 2) characters, each row 1.2 font sizes
\* high; a text without characters is one row high
GalleyHeight(len, max_width, font_size) ==
    LET per_row == Max(1, (2 * max_width) \div font_size)
        rows == Max(1, (len + per_row - 1) \div per_row)
    IN  rows * ((font_size * 12) \div 10)

\* update: the text laid out for an element
ElementTextLen(element) ==
    CASE element.kind = "text"    -> element.len
      [] element.kind = "heading" -> HEADING_PREFIX_LEN + element.len
      [] element.kind = "image"   -> IMAGE_WRAP_LEN + element.len

\* a heading followed by the spacing of a paragraph
ElementSpacing_NotDoubled(element, paragraph_spacing) == paragraph_spacing

\* update: the spacing that follows an element in the layout
ElementSpacing(element, paragraph_spacing) ==
    IF element.kind = "heading" THEN paragraph_spacing * 2 ELSE paragraph_spacing

\* LaidOutElement
LaidOutElement(len, y, h) == [text |-> len, y_position |-> y, height |-> h]

\* update: current_y when the layout loop reaches element i (1-based)
RECURSIVE CurrentY(_, _, _, _, _)
CurrentY(elements, i, content_width, font_size, paragraph_spacing) ==
    IF i = 1 THEN 0
    ELSE CurrentY(elements, i - 1, content_width, font_size, paragraph_spacing)
         + GalleyHeight(ElementTextLen(elements[i - 1]), content_width, font_size)
         + ElementSpacing(elements[i - 1], paragraph_spacing)

\* update: the layout loop, laid_out
LayOut(elements, content_width, font_size, paragraph_spacing) ==
    [i \in 1..Len(elements) |->
        LaidOutElement(ElementTextLen(elements[i]),
                       CurrentY(elements, i, content_width, font_size, paragraph_spacing),
                       GalleyHeight(ElementTextLen(elements[i]), content_width, font_size))]

\* the first element that starts after y
PositionEndingAfter_StartingAfter(laid_out, y) ==
    LET hits == {i \in 1..Len(laid_out) : laid_out[i].y_position > y}
    IN  IF hits = {} THEN None
        ELSE Some((CHOOSE i \in hits : \A j \in hits : i <= j) - 1)

\* iter().position(|e| e.y_position + e.height > y): Option<usize>
PositionEndingAfter(laid_out, y) ==
    LET hits == {i \in 1..Len(laid_out) : laid_out[i].y_position + laid_out[i].height > y}
    IN  IF hits = {} THEN None
        ELSE Some((CHOOSE i \in hits : \A j \in hits : i <= j) - 1)

\* Option::unwrap_or
UnwrapOr(o, default) == IF IsSome(o) THEN Unwrap(o) ELSE default

\* update: total_height, the sum of height + paragraph_spacing
RECURSIVE TotalHeight(_, _, _)
TotalHeight(laid_out, n, paragraph_spacing) ==
    IF n = 0 THEN 0
    ELSE TotalHeight(laid_out, n - 1, paragraph_spacing)
         + laid_out[n].height + paragraph_spacing

\* update: content_width
ContentWidth(r, avail) ==
    Min(Max(r.desired_content_width, MIN_CONTENT_WIDTH),
        avail.width - MINIMAP_WIDTH - (MIN_SIDE_MARGIN * 2))

\* update: font_or_spacing_changed and what follows it
FontStage(r, avail) ==
    IF \/ r.selected_font_family # r.previous_font_family
       \/ Abs(r.font_size - r.previous_font_size) > 1
       \/ Abs(r.paragraph_spacing - r.previous_paragraph_spacing) > 1
    THEN [r EXCEPT !.anchor_element_index =
                       PositionEndingAfter(r.laid_out_elements,
                                           r.scroll_offset + avail.height \div 2),
                   !.laid_out_elements = << >>,
                   !.previous_font_family = r.selected_font_family,
                   !.previous_font_size = r.font_size,
                   !.previous_paragraph_spacing = r.paragraph_spacing]
    ELSE r

\* a layout made only when the width has moved
NeedLayout_WidthOnly(r, avail) ==
    Abs(ContentWidth(r, avail) - r.last_layout_width) > 10

\* update: need_layout
NeedLayout(r, avail) ==
    \/ r.laid_out_elements = << >>
    \/ Abs(ContentWidth(r, avail) - r.last_layout_width) > 10

\* update: the anchor the relayout works with: the one the font change
\* captured, or else the one captured now
LayoutAnchor(r, avail) ==
    IF ~IsSome(r.anchor_element_index)
    THEN PositionEndingAfter(r.laid_out_elements,
                             r.scroll_offset + avail.height \div 2)
    ELSE r.anchor_element_index

\* the anchor restored without the floor at 0
RestoreScroll_NoFloor(laid_out, anchor, avail, scroll_offset) ==
    IF IsSome(anchor) /\ Unwrap(anchor) < Len(laid_out)
    THEN laid_out[Unwrap(anchor) + 1].y_position - avail.height \div 2
    ELSE scroll_offset

\* the anchor restored to the top of the viewport instead of its centre
RestoreScroll_AnchorAtTop(laid_out, anchor, avail, scroll_offset) ==
    IF IsSome(anchor) /\ Unwrap(anchor) < Len(laid_out)
    THEN Max(laid_out[Unwrap(anchor) + 1].y_position, 0)
    ELSE scroll_offset

\* update: scroll_offset once the anchor is restored on the new layout
RestoreScroll(laid_out, anchor, avail, scroll_offset) ==
    IF IsSome(anchor) /\ Unwrap(anchor) < Len(laid_out)
    THEN Max(laid_out[Unwrap(anchor) + 1].y_position - avail.height \div 2, 0)
    ELSE scroll_offset

\* a relayout that recomputes the heights and leaves every element the old
\* layout holds at the y_position it had
LayoutStage_KeepsPositions(r, avail) ==
    LET content_width == ContentWidth(r, avail)
        anchor == LayoutAnchor(r, avail)
        fresh == LayOut(r.document.elements, content_width, r.font_size,
                        r.paragraph_spacing)
        laid_out == [i \in 1..Len(fresh) |->
                        IF i <= Len(r.laid_out_elements)
                        THEN [fresh[i] EXCEPT !.y_position =
                                                  r.laid_out_elements[i].y_position]
                        ELSE fresh[i]]
    IN  IF ~NeedLayout(r, avail) THEN r
        ELSE [r EXCEPT !.last_layout_width = content_width,
                       !.laid_out_elements = laid_out,
                       !.scroll_offset =
                           RestoreScroll(laid_out, anchor, avail, r.scroll_offset),
                       !.anchor_element_index = None]

\* update: need_layout and the relayout, the anchor restored
LayoutStage(r, avail) ==
    LET content_width == ContentWidth(r, avail)
        anchor == LayoutAnchor(r, avail)
        laid_out == LayOut(r.document.elements, content_width, r.font_size,
                           r.paragraph_spacing)
    IN  IF ~NeedLayout(r, avail) THEN r
        ELSE [r EXCEPT !.last_layout_width = content_width,
                       !.laid_out_elements = laid_out,
                       !.scroll_offset =
                           RestoreScroll(laid_out, anchor, avail, r.scroll_offset),
                       !.anchor_element_index = None]

\* the range's end falling back to the first element
CurrentPosition_EndFallsToFirst(r, avail) ==
    <<UnwrapOr(PositionEndingAfter(r.laid_out_elements, r.scroll_offset), 0),
      UnwrapOr(PositionEndingAfter(r.laid_out_elements, r.scroll_offset + avail.height),
               0)>>

\* update: current_position, (current_element_idx, end_element_idx)
CurrentPosition(r, avail) ==
    <<UnwrapOr(PositionEndingAfter(r.laid_out_elements, r.scroll_offset), 0),
      UnwrapOr(PositionEndingAfter(r.laid_out_elements, r.scroll_offset + avail.height),
               Max(Len(r.laid_out_elements) - 1, 0))>>

\* the push decided by position_changed && time_elapsed
PushDue_Both(r, current_position, now) ==
    LET position_changed == IF IsSome(r.last_sent_position)
                            THEN Unwrap(r.last_sent_position) # current_position
                            ELSE TRUE
        time_elapsed == IF IsSome(r.last_position_update)
                        THEN now - Unwrap(r.last_position_update) >= PUSH_INTERVAL_MS
                        ELSE TRUE
    IN  position_changed /\ time_elapsed

\* update: position_changed || time_elapsed, read at the instant now
PushDue(r, current_position, now) ==
    LET position_changed == IF IsSome(r.last_sent_position)
                            THEN Unwrap(r.last_sent_position) # current_position
                            ELSE TRUE
        time_elapsed == IF IsSome(r.last_position_update)
                        THEN now - Unwrap(r.last_position_update) >= PUSH_INTERVAL_MS
                        ELSE TRUE
    IN  position_changed \/ time_elapsed

\* update: the PositionUpdate posted to /update_position
PushUpdate(r, current_position) ==
    PositionUpdate(r.user_name, r.user_color,
                   Position(current_position[1], current_position[2]),
                   r.password_hash)

\* the range kept as last sent only by the first push
PushStage_KeepsSentRange(r, current_position, due, now) ==
    IF due
    THEN [r EXCEPT !.last_position_update = Some(now),
                   !.last_sent_position =
                       IF IsSome(r.last_sent_position) THEN r.last_sent_position
                       ELSE Some(current_position)]
    ELSE r

\* update: after the push, whatever became of it; now is read after block_on
PushStage(r, current_position, due, now) ==
    IF due
    THEN [r EXCEPT !.last_position_update = Some(now),
                   !.last_sent_position = Some(current_position)]
    ELSE r

\* the pull left out of a frame whose push has just returned
PullDue_NotAfterPush(r, now) ==
    /\ r.last_position_update # Some(now)
    /\ IF IsSome(r.last_users_fetch)
       THEN now - Unwrap(r.last_users_fetch) >= FETCH_INTERVAL_MS
       ELSE TRUE

\* update: should_fetch_users, read at the instant now
PullDue(r, now) ==
    IF IsSome(r.last_users_fetch)
    THEN now - Unwrap(r.last_users_fetch) >= FETCH_INTERVAL_MS
    ELSE TRUE

\* update: the request sent to /positions; it carries no query
PullRequest == AuthRequest(None)

\* update: the Result of the pull: Ok(users) when the request was answered
\* and the body parsed as a UsersResponse, which only a 200 carries
PullResult(net, response) ==
    IF net = "ok" /\ response.status = STATUS_OK THEN Some(response.out) ELSE None

\* the cache emptied by a pull that failed
PullStage_BlanksOnFailure(r, result, now) ==
    IF IsSome(result)
    THEN [r EXCEPT !.other_users = Unwrap(result),
                   !.last_users_fetch = Some(now)]
    ELSE [r EXCEPT !.other_users = << >>]

\* the fetch instant stamped by a pull that failed
PullStage_StampsFailure(r, result, now) ==
    IF IsSome(result)
    THEN [r EXCEPT !.other_users = Unwrap(result),
                   !.last_users_fetch = Some(now)]
    ELSE [r EXCEPT !.last_users_fetch = Some(now)]

\* update: if let Ok(users) = result; now is read after block_on
PullStage(r, result, now) ==
    IF IsSome(result)
    THEN [r EXCEPT !.other_users = Unwrap(result),
                   !.last_users_fetch = Some(now)]
    ELSE r

\* the fast speed taken from 500.0 on instead of above it
FollowStage_FastFrom500(r) ==
    IF ~IsSome(r.following_user) THEN r
    ELSE IF Unwrap(r.following_user) \notin DOMAIN r.other_users THEN r
    ELSE LET followed_user == r.other_users[Unwrap(r.following_user)]
             idx == followed_user.position.start_element
         IN  IF idx >= Len(r.laid_out_elements) THEN r
             ELSE LET target_scroll == r.laid_out_elements[idx + 1].y_position
                      current_scroll == r.scroll_offset
                      distance == Abs(target_scroll - current_scroll)
                      speed == IF distance >= FOLLOW_FAST_DISTANCE
                               THEN FOLLOW_FAST_SPEED ELSE FOLLOW_SLOW_SPEED
                  IN  IF distance > FOLLOW_JUMP_DISTANCE
                      THEN [r EXCEPT !.scroll_offset = target_scroll]
                      ELSE [r EXCEPT !.scroll_offset =
                                current_scroll
                                + Signum(target_scroll - current_scroll)
                                  * Min(speed, distance)]

\* the step taken at full speed however close the target is
FollowStage_FullSpeed(r) ==
    IF ~IsSome(r.following_user) THEN r
    ELSE IF Unwrap(r.following_user) \notin DOMAIN r.other_users THEN r
    ELSE LET followed_user == r.other_users[Unwrap(r.following_user)]
             idx == followed_user.position.start_element
         IN  IF idx >= Len(r.laid_out_elements) THEN r
             ELSE LET target_scroll == r.laid_out_elements[idx + 1].y_position
                      current_scroll == r.scroll_offset
                      distance == Abs(target_scroll - current_scroll)
                      speed == IF distance > FOLLOW_FAST_DISTANCE
                               THEN FOLLOW_FAST_SPEED ELSE FOLLOW_SLOW_SPEED
                  IN  IF distance > FOLLOW_JUMP_DISTANCE
                      THEN [r EXCEPT !.scroll_offset = target_scroll]
                      ELSE [r EXCEPT !.scroll_offset =
                                current_scroll
                                + Signum(target_scroll - current_scroll) * speed]

\* the step forgetting a followed reader it finds no target for
FollowStage_DropsLostPeer(r) ==
    IF ~IsSome(r.following_user) THEN r
    ELSE IF Unwrap(r.following_user) \notin DOMAIN r.other_users
    THEN [r EXCEPT !.following_user = None]
    ELSE LET followed_user == r.other_users[Unwrap(r.following_user)]
             idx == followed_user.position.start_element
         IN  IF idx >= Len(r.laid_out_elements)
             THEN [r EXCEPT !.following_user = None]
             ELSE LET target_scroll == r.laid_out_elements[idx + 1].y_position
                      current_scroll == r.scroll_offset
                      distance == Abs(target_scroll - current_scroll)
                      speed == IF distance > FOLLOW_FAST_DISTANCE
                               THEN FOLLOW_FAST_SPEED ELSE FOLLOW_SLOW_SPEED
                  IN  IF distance > FOLLOW_JUMP_DISTANCE
                      THEN [r EXCEPT !.scroll_offset = target_scroll]
                      ELSE [r EXCEPT !.scroll_offset =
                                current_scroll
                                + Signum(target_scroll - current_scroll)
                                  * Min(speed, distance)]

\* update: the step towards the followed reader's first element
FollowStage(r) ==
    IF ~IsSome(r.following_user) THEN r
    ELSE IF Unwrap(r.following_user) \notin DOMAIN r.other_users THEN r
    ELSE LET followed_user == r.other_users[Unwrap(r.following_user)]
             idx == followed_user.position.start_element
         IN  IF idx >= Len(r.laid_out_elements) THEN r
             ELSE LET target_scroll == r.laid_out_elements[idx + 1].y_position
                      current_scroll == r.scroll_offset
                      distance == Abs(target_scroll - current_scroll)
                      speed == IF distance > FOLLOW_FAST_DISTANCE
                               THEN FOLLOW_FAST_SPEED ELSE FOLLOW_SLOW_SPEED
                  IN  IF distance > FOLLOW_JUMP_DISTANCE
                      THEN [r EXCEPT !.scroll_offset = target_scroll]
                      ELSE [r EXCEPT !.scroll_offset =
                                current_scroll
                                + Signum(target_scroll - current_scroll)
                                  * Min(speed, distance)]

\* update: the layout element the follow step reads with get, if any
FollowReads(r) ==
    IF ~IsSome(r.following_user) THEN {}
    ELSE IF Unwrap(r.following_user) \notin DOMAIN r.other_users THEN {}
    ELSE LET idx == r.other_users[Unwrap(r.following_user)].position.start_element
         IN  IF idx >= Len(r.laid_out_elements) THEN {} ELSE {idx}

\* the range bar of a reader drawn with end_element as it came
PeerBarReads_Unclamped(r, user) ==
    IF user.position.start_element >= Len(r.laid_out_elements) THEN {}
    ELSE {user.position.start_element, user.position.end_element}

\* update: the layout elements indexed for the range bar of another reader
PeerBarReads(r, user) ==
    LET start_idx == user.position.start_element
        end_idx == user.position.end_element
    IN  IF start_idx >= Len(r.laid_out_elements) THEN {}
        ELSE {start_idx, Min(end_idx, Len(r.laid_out_elements) - 1)}

\* update: sorted_users, the readers range bars are drawn for
BarUsers(r) ==
    {k \in DOMAIN r.other_users : r.other_users[k].name # r.user_name}

\* update: the wheel, the clamp, then the keys
ScrollStage(r, avail, total_height, scroll_delta, keys) ==
    LET clamped == Min(Max(r.scroll_offset - scroll_delta, 0),
                       total_height - avail.height + SCROLL_BOTTOM_SLACK)
        down == IF "ArrowDown" \in keys THEN clamped + KEY_SCROLL ELSE clamped
        up == IF "ArrowUp" \in keys THEN down - KEY_SCROLL ELSE down
        space == IF "Space" \in keys THEN up + (avail.height * 8) \div 10 ELSE up
    IN  [r EXCEPT !.scroll_offset = space,
                  !.following_user =
                      IF Abs(scroll_delta) > 1 \/ keys # {} THEN None
                      ELSE r.following_user]

\* update: the click on a reader's row in the Users window
UserRowClicked(r, user_key) ==
    LET user == r.other_users[user_key]
        is_self == user.name = r.user_name
        is_following == r.following_user = Some(user_key)
    IN  [r EXCEPT !.following_user =
            IF is_self \/ is_following THEN None ELSE Some(user_key)]

\* update: a click or drag on the minimap, the pointer at ratio/1000 of its
\* height
MinimapStage(r, kind, ratio) ==
    LET total_elements == Len(r.document.elements)
        target_element_idx == (Min(Max(ratio, 0), 1000) * total_elements) \div 1000
        moved == IF kind \in {"clicked", "dragged"}
                    /\ target_element_idx < Len(r.laid_out_elements)
                 THEN [r EXCEPT !.scroll_offset =
                                    r.laid_out_elements[target_element_idx + 1].y_position,
                                !.following_user = None]
                 ELSE r
    IN  IF total_elements = 0 THEN r
        ELSE [moved EXCEPT !.dragging_minimap =
                  IF kind = "dragged" THEN TRUE
                  ELSE IF kind = "drag_stopped" THEN FALSE
                  ELSE r.dragging_minimap]

\* update: a drag of the width adjuster, the pointer distance points from
\* the centre
AdjusterStage(r, avail, kind, distance) ==
    LET max_available_for_content ==
            avail.width - MINIMAP_WIDTH - (MIN_SIDE_MARGIN * 2)
    IN  IF kind = "dragged"
        THEN [r EXCEPT !.dragging_width_adjuster = TRUE,
                       !.desired_content_width =
                           Min(Max(distance * 2, MIN_CONTENT_WIDTH),
                               max_available_for_content)]
        ELSE IF kind = "drag_stopped"
        THEN [r EXCEPT !.dragging_width_adjuster = FALSE]
        ELSE r

\* update: the bar, the Options and Users windows, the minimap and the
\* width adjuster, given the frame's pointer event
UiStage(r, ui, avail) ==
    CASE ui.on = "Options" -> [r EXCEPT !.options_open = ~r.options_open]
      [] ui.on = "Users" -> [r EXCEPT !.users_open = ~r.users_open]
      [] ui.on = "Stop Following" ->
            IF IsSome(r.following_user) THEN [r EXCEPT !.following_user = None] ELSE r
      [] ui.on = "font_family" /\ r.options_open ->
            [r EXCEPT !.selected_font_family = ui.value]
      [] ui.on = "font_size" /\ r.options_open -> [r EXCEPT !.font_size = ui.value]
      [] ui.on = "paragraph_spacing" /\ r.options_open ->
            [r EXCEPT !.paragraph_spacing = ui.value]
      [] ui.on = "foreground_color" /\ r.options_open ->
            [r EXCEPT !.foreground_color = ui.value]
      [] ui.on = "background_color" /\ r.options_open ->
            [r EXCEPT !.background_color = ui.value]
      [] ui.on = "close_options" /\ r.options_open -> [r EXCEPT !.options_open = FALSE]
      [] ui.on = "user" /\ r.users_open /\ ui.value \in DOMAIN r.other_users ->
            UserRowClicked(r, ui.value)
      [] ui.on = "close_users" /\ r.users_open -> [r EXCEPT !.users_open = FALSE]
      [] ui.on = "minimap" -> MinimapStage(r, ui.kind, ui.value)
      [] ui.on = "adjuster" -> AdjusterStage(r, avail, ui.kind, ui.value)
      [] OTHER -> r

\* AppState
Login == [kind |-> "Login"]

Error(message) == [kind |-> "Error", message |-> message]

Reader(r) == [kind |-> "Reader", reader |-> r]

\* attempt_connection: the ReaderState built once the document has arrived
ReaderState(user_name, user_color, hash, doc) ==
    [user_name |-> user_name,
     user_color |-> user_color,
     password_hash |-> hash,
     document |-> doc,
     scroll_offset |-> 0,
     desired_content_width |-> INITIAL_CONTENT_WIDTH,
     last_layout_width |-> 0,
     laid_out_elements |-> << >>,
     options_open |-> FALSE,
     users_open |-> FALSE,
     selected_font_family |-> "Japanese",
     font_size |-> INITIAL_FONT_SIZE,
     paragraph_spacing |-> INITIAL_PARAGRAPH_SPACING,
     foreground_color |-> "black",
     background_color |-> "white",
     previous_font_family |-> "Japanese",
     previous_font_size |-> INITIAL_FONT_SIZE,
     previous_paragraph_spacing |-> INITIAL_PARAGRAPH_SPACING,
     dragging_width_adjuster |-> FALSE,
     dragging_minimap |-> FALSE,
     anchor_element_index |-> None,
     other_users |-> << >>,
     following_user |-> None,
     last_users_fetch |-> None,
     last_position_update |-> None,
     last_sent_position |-> None]

\* A request as it left the client: the endpoint, the hash it carried and
\* the status that came back (0 when no response came).
Request(endpoint, hash, status) ==
    [endpoint |-> endpoint, password_hash |-> hash, status |-> status]

\* What the client's latest step did with the push: the range computed,
\* the instant t0 the push was decided at, whether it was issued, and (sent)
\* the range and instant of the latest push issued since the connection.
PushLog(range, t0, pushed, sent) ==
    [range |-> range, t0 |-> t0, pushed |-> pushed, sent |-> sent]

\* What the client's latest step did with the pull: the instant t1 the pull
\* was decided at, whether it was attempted and succeeded, and (fetched) the
\* instant of the latest successful pull since the connection.
PullLog(t1, pulled, ok, fetched) ==
    [t1 |-> t1, pulled |-> pulled, ok |-> ok, fetched |-> fetched]

\* What the client's latest step did: which step, the requests it sent, the
\* hash of the password entered at login, its push and its pull.  frame
\* alternates between 0 and 1 from one step of the client to the next.
TickLog(step, requests, hash, push, pull) ==
    [step |-> step, frame |-> 1 - tick.frame, requests |-> requests,
     login_hash |-> hash, push |-> push, pull |-> pull]

\* A step of the client that is no Reader tick.
OtherLog(step, requests, hash) ==
    TickLog(step, requests, hash,
            PushLog(<<0, 0>>, 0, FALSE, None),
            PullLog(0, FALSE, FALSE, None))

\* What the client's latest frame was given and did to the view: the
\* reader's input (wheel, keys, pointer event), whether the frame's pull
\* came right after a frame whose pull had failed (retried), whether the
\* document was laid out anew (relaid), then with which anchor and with
\* which scroll_offset as the result (restored), and by how much the follow
\* step moved scroll_offset (follow_by).
ViewLog(input, retried, relaid, anchor, restored, follow_by) ==
    [input |-> input, retried |-> retried, relaid |-> relaid, anchor |-> anchor,
     restored |-> restored, follow_by |-> follow_by]

\* The reader's part of a frame's input.
ManualInput(inp) == [scroll_delta |-> inp.scroll_delta, keys |-> inp.keys, ui |-> inp.ui]

\* No frame.
NoView ==
    ViewLog([scroll_delta |-> 0, keys |-> {}, ui |-> [on |-> "none"]],
            FALSE, FALSE, None, None, 0)

\* ReaderApp::new
ClientInit ==
    /\ state = Login
    /\ cli_now = 0
    /\ view = NoView
    /\ tick = [step |-> "start", frame |-> 0, requests |-> << >>, login_hash |-> None,
               push |-> PushLog(<<0, 0>>, 0, FALSE, None),
               pull |-> PullLog(0, FALSE, FALSE, None)]

\* attempt_connection: the hash of the password entered
LoginHash(login_info) ==
    IF login_info.password # "" THEN Some(Sha256Hex(login_info.password)) ELSE None

\* StatusCode::is_success of every status
is_success_Always(status) == TRUE

\* StatusCode::is_success
is_success(status) == status \in 200..299

\* attempt_connection: the answer to GET /health, None when send() fails;
\* whatever listens at the address may answer it with another status than
\* the server's
HealthStatus(net) ==
    IF net = "health_error" THEN None
    ELSE IF net = "health_status" THEN Some(503)
    ELSE Some(health_response.status)

\* The Connect click logged as a frame's input.
ConnectView(login_info, net) ==
    [NoView EXCEPT !.input.ui = [on |-> "Connect",
                                 display_name |-> login_info.display_name,
                                 net |-> net]]

\* attempt_connection.  net is what the network does with the requests:
\* "health_error" and "document_error" fail the send(), "health_status" has
\* /health answered with a status that is not a success, "document_body"
\* has /document answered with a body that is not a Document.
attempt_connection(login_info, net) ==
    /\ state = Login
    /\ LET display_name == Trim(login_info.display_name)
           hash == LoginHash(login_info)
           health == HealthStatus(net)
           doc == document_response(AuthRequest(None))
       IN  IF display_name = ""
           THEN /\ state' = Error("Display name cannot be empty")
                /\ tick' = OtherLog("connect", << >>, hash)
           ELSE IF ~IsSome(health)
           THEN /\ state' = Error("Connection failed: health request")
                /\ tick' = OtherLog("connect", <<Request("health", None, 0)>>, hash)
           ELSE IF ~is_success(Unwrap(health))
           THEN /\ state' = Error("Connection failed: Server health check failed")
                /\ tick' = OtherLog("connect",
                                    <<Request("health", None, Unwrap(health))>>, hash)
           ELSE IF net = "document_error"
           THEN /\ state' = Error("Connection failed: document request")
                /\ tick' = OtherLog("connect",
                                    <<Request("health", None, Unwrap(health)),
                                      Request("document", None, 0)>>, hash)
           ELSE /\ tick' = OtherLog("connect",
                                    <<Request("health", None, Unwrap(health)),
                                      Request("document", None, doc.status)>>, hash)
                /\ state' = IF ~is_success(doc.status)
                            THEN Error("Connection failed: Failed to load document")
                            ELSE IF net = "document_body"
                            THEN Error("Connection failed: document body")
                            ELSE Reader(ReaderState(display_name,
                                                    HexColor(login_info.user_color),
                                                    hash, doc.out))
    /\ cli_now' = 0
    /\ view' = ConnectView(login_info, net)
    /\ last' = Response("client", None, STATUS_OK, None)
    /\ UNCHANGED <<config_vars, users, srv_now, next_sweep, thread_vars>>
    /\ History({})

\* update in the Error state with Back to Login clicked
back_to_login ==
    /\ state.kind = "Error"
    /\ state' = Login
    /\ tick' = OtherLog("back", << >>, None)
    /\ view' = NoView
    /\ last' = Response("client", None, STATUS_OK, None)
    /\ UNCHANGED <<config_vars, users, srv_now, next_sweep, thread_vars, cli_now>>
    /\ History({})

\* a frame that always ends at the login form
should_back_to_login_Always(ui) == TRUE

\* update: should_back_to_login, set by the Disconnect button
should_back_to_login(ui) == ui.on = "Disconnect"

\* update in the Reader state, from the push on.  laid is the ReaderState
\* once laid out, current_position the range computed from it.
reader_sync(inp, laid, total_height, current_position, horizon) ==
    \E pushed \in {PushDue(laid, current_position, cli_now)},
       update \in {PushUpdate(laid, current_position)} :
    \E t1 \in {IF pushed THEN cli_now + inp.push_ms ELSE cli_now},
       registry \in {IF pushed /\ inp.push_net = "ok"
                     THEN update_position_users(users, update, srv_now)
                     ELSE users} :
    \E after_push \in {PushStage(laid, current_position, pushed, t1)} :
    \E pulled \in {PullDue(after_push, t1)},
       pull_reply \in {positions_response(registry, PullRequest)} :
    \E result \in {IF pulled THEN PullResult(inp.pull_net, pull_reply) ELSE None},
       t2 \in {IF pulled THEN t1 + inp.pull_ms ELSE t1} :
    \E followed \in {FollowStage(PullStage(after_push, result, t2))} :
    \E after_ui \in {UiStage(ScrollStage(followed, inp.avail, total_height,
                                         inp.scroll_delta, inp.keys),
                             inp.ui, inp.avail)} :
        /\ t2 <= horizon
        /\ state' = IF should_back_to_login(inp.ui) THEN Login ELSE Reader(after_ui)
        /\ view' = ViewLog(ManualInput(inp),
                           pulled /\ tick.step = "tick" /\ tick.pull.pulled
                                  /\ ~tick.pull.ok,
                           NeedLayout(FontStage(state.reader, inp.avail), inp.avail),
                           IF NeedLayout(FontStage(state.reader, inp.avail), inp.avail)
                           THEN LayoutAnchor(FontStage(state.reader, inp.avail), inp.avail)
                           ELSE None,
                           IF NeedLayout(FontStage(state.reader, inp.avail), inp.avail)
                           THEN Some(laid.scroll_offset) ELSE None,
                           followed.scroll_offset - laid.scroll_offset)
        /\ users' = registry
        /\ cli_now' = t2
        /\ last' = Response("client", None, STATUS_OK, None)
        /\ tick' = TickLog("tick",
                           (IF pushed
                            THEN <<Request("update_position", update.password_hash,
                                           IF inp.push_net = "ok"
                                           THEN update_position_response(users, update).status
                                           ELSE 0)>>
                            ELSE << >>)
                           \o (IF pulled
                               THEN <<Request("positions", PullRequest.password_hash,
                                              IF inp.pull_net = "error" THEN 0
                                              ELSE pull_reply.status)>>
                               ELSE << >>),
                           laid.password_hash,
                           PushLog(current_position, cli_now, pushed,
                                   IF pushed
                                   THEN Some([range |-> current_position, at |-> t1])
                                   ELSE tick.push.sent),
                           PullLog(t1, pulled, IsSome(result),
                                   IF IsSome(result) THEN Some(t2)
                                   ELSE tick.pull.fetched))
        /\ UNCHANGED <<config_vars, srv_now, next_sweep, thread_vars>>
        /\ History(IF pushed /\ inp.push_net = "ok" THEN Upserts(update) ELSE {})

\* update in the Reader state: one frame.  inp is what the frame is given:
\* the available rect, the wheel, the keys pressed, the pointer event, and
\* for each request what the network does with it (push_net, pull_net) and
\* how long block_on takes (push_ms, pull_ms).
reader_update(inp, horizon) ==
    /\ state.kind = "Reader"
    /\ \E laid \in {LayoutStage(FontStage(state.reader, inp.avail), inp.avail)} :
          reader_sync(inp, laid,
                      TotalHeight(laid.laid_out_elements, Len(laid.laid_out_elements),
                                  laid.paragraph_spacing),
                      CurrentPosition(laid, inp.avail), horizon)

\* update in the Reader state: the follow step alone
follow_step ==
    /\ state.kind = "Reader"
    /\ state' = Reader(FollowStage(state.reader))
    /\ tick' = OtherLog("follow", << >>, state.reader.password_hash)
    /\ view' = ViewLog(NoView.input, FALSE, FALSE, None, None,
                       FollowStage(state.reader).scroll_offset
                       - state.reader.scroll_offset)
    /\ last' = Response("client", None, STATUS_OK, None)
    /\ UNCHANGED <<config_vars, users, srv_now, next_sweep, thread_vars, cli_now>>
    /\ History({})

\* time passes between two frames
client_clock(step, horizon) ==
    /\ cli_now + step <= horizon
    /\ cli_now' = cli_now + step
    /\ UNCHANGED <<config_vars, users, srv_now, next_sweep, thread_vars, last, state, tick, view>>
    /\ History({})

\* main again: the server is stopped and started, with or without --password
server_restart ==
    /\ password_hash' \in {None} \cup {Some(Sha256Hex("pw"))}
    /\ password_hash' # password_hash
    /\ users' = << >>
    /\ last' = Response("start", None, STATUS_OK, None)
    /\ run_start' = -1
    /\ last_upsert' = -1
    /\ UNCHANGED <<document, srv_now, next_sweep, thread_vars, client_vars, tracked>>

Init == ServerInit /\ ThreadsInit /\ ClientInit /\ HistoryInit

(***************************************************************************)
(* Spec: the registry over time.  Updates carry one colour and position;   *)
(* what they carry is SpecReq's subject.                                   *)
(***************************************************************************)
TimedUpdates ==
    {PositionUpdate(n, "#6496ff", Position(0, 1), h) :
        n \in Names, h \in {None, Some(Sha256Hex("pw"))}}

Next ==
    \/ \E update \in TimedUpdates : update_position_handler(update)
    \/ \E h \in {None, Some(Sha256Hex("pw"))} : positions_handler(AuthRequest(h))
    \/ heartbeat_cleanup
    \/ AdvanceClock(1, MaxTime)

Spec == Init /\ [][Next]_vars

(***************************************************************************)
(* SpecReq: every endpoint, every payload.                                 *)
(***************************************************************************)
NextReq ==
    \/ health_handler
    \/ \E h \in RequestHashes : document_handler(AuthRequest(h))
    \/ \E id \in ImageIds, h \in RequestHashes : image_handler(id, AuthRequest(h))
    \/ \E h \in RequestHashes : positions_handler(AuthRequest(h))
    \/ \E update \in PositionUpdates : update_position_handler(update)
    \/ heartbeat_cleanup
    \/ AdvanceClock(1, MaxReqTime)

SpecReq == Init /\ [][NextReq]_vars

(***************************************************************************)
(* SpecReads: the four GET endpoints, ann's updates with and without the   *)
(* hash, the sweeper and the clock.                                        *)
(***************************************************************************)
ReadsUpdates ==
    {PositionUpdate("ann", "#6496ff", Position(0, 1), h) :
        h \in {None, Some(Sha256Hex("pw"))}}

NextReads ==
    \/ health_handler
    \/ \E h \in {None, Some(Sha256Hex("pw"))} : document_handler(AuthRequest(h))
    \/ \E id \in ImageIds, h \in {None, Some(Sha256Hex("pw"))} :
          image_handler(id, AuthRequest(h))
    \/ \E h \in {None, Some(Sha256Hex("pw"))} : positions_handler(AuthRequest(h))
    \/ \E update \in ReadsUpdates : update_position_handler(update)
    \/ heartbeat_cleanup
    \/ AdvanceClock(1, MaxTime)

InitReads == Init /\ tracked = "ann"

SpecReads == InitReads /\ [][NextReads]_vars

(***************************************************************************)
(* SpecLock: two requests to /update_position, one to /positions and the   *)
(* sweeper, interleaved step by step.  An update's colour and position go  *)
(* together, so that a record put together from two updates shows.         *)
(***************************************************************************)
LockUpdates ==
    {PositionUpdate(n, "#6496ff", Position(0, 1), h) :
        n \in Names, h \in {None, Some(Sha256Hex("pw"))}}
    \cup {PositionUpdate(n, "#ff0000", Position(7, 9), h) :
        n \in Names, h \in {None, Some(Sha256Hex("pw"))}}

NextLock ==
    \/ \E t \in Writers, update \in LockUpdates : update_begin(t, update)
    \/ \E t \in Writers : update_lock(t)
    \/ \E t \in Writers : update_insert_begin(t)
    \/ \E t \in Writers : update_insert_end(t)
    \/ \E t \in Readers, h \in {None, Some(Sha256Hex("pw"))} :
          positions_begin(t, AuthRequest(h))
    \/ \E t \in Readers : positions_lock(t)
    \/ \E t \in Readers : positions_iter(t)
    \/ \E t \in Readers : positions_end(t)
    \/ sweep_tick
    \/ sweep_lock
    \/ sweep_retain
    \/ lock_clock

SpecLock == Init /\ [][NextLock]_vars

(***************************************************************************)
(* SpecLockFair: the threads of SpecLock, the handlers given one update    *)
(* and one snapshot request to serve over and over, under fair scheduling: *)
(* a thread that stands inside its critical section takes its next step    *)
(* (weak fairness: nothing in there waits for anything), and a thread that *)
(* waits for the lock and finds it free again and again gets it (strong    *)
(* fairness: the lock passes to each waiter in turn).                      *)
(***************************************************************************)
FairUpdates == {PositionUpdate("ann", "#6496ff", Position(0, 1), None)}

NextLockFair ==
    \/ \E t \in Writers, update \in FairUpdates : update_begin(t, update)
    \/ \E t \in Writers : update_lock(t)
    \/ \E t \in Writers : update_insert_begin(t)
    \/ \E t \in Writers : update_insert_end(t)
    \/ \E t \in Readers : positions_begin(t, AuthRequest(None))
    \/ \E t \in Readers : positions_lock(t)
    \/ \E t \in Readers : positions_iter(t)
    \/ \E t \in Readers : positions_end(t)
    \/ sweep_tick
    \/ sweep_lock
    \/ sweep_retain
    \/ lock_clock

FairScheduling ==
    /\ \A t \in Writers :
          /\ SF_vars(update_lock(t))
          /\ WF_vars(update_insert_begin(t))
          /\ WF_vars(update_insert_end(t))
    /\ \A t \in Readers :
          /\ SF_vars(positions_lock(t))
          /\ WF_vars(positions_iter(t))
          /\ WF_vars(positions_end(t))
    /\ SF_vars(sweep_lock)
    /\ WF_vars(sweep_retain)

InitLockFair == Init /\ tracked = "ann"

SpecLockFair == InitLockFair /\ [][NextLockFair]_vars /\ FairScheduling

(***************************************************************************)
(* SpecClient: one reader's client from login on, against the server, with *)
(* one other reader's updates arriving at the server.                      *)
(***************************************************************************)
LoginInfos ==
    [display_name : {"", " ", "cat"}, user_color : {<<100, 150, 255>>},
     password : {"", "pw"}]

ConnectNets ==
    {"ok", "health_error", "health_status", "document_error", "document_body"}

FrameRect == [width |-> 10000, height |-> 6000]

FrameInputs ==
    [avail : {FrameRect},
     scroll_delta : {0},
     keys : {{}},
     ui : {[on |-> "none"], [on |-> "Disconnect"]},
     push_net : {"ok", "error"},
     pull_net : {"ok", "error", "bad_body"},
     push_ms : {0},
     pull_ms : {0}]

PeerUpdates ==
    {PositionUpdate("ann", "#ff0000", Position(3, 4), Some(Sha256Hex("pw")))}

NextClient ==
    \/ \E login_info \in LoginInfos, net \in ConnectNets :
          attempt_connection(login_info, net)
    \/ back_to_login
    \/ \E inp \in FrameInputs : reader_update(inp, MaxCliTime)
    \/ client_clock(NetMs, MaxCliTime)
    \/ \E update \in PeerUpdates : update_position_handler(update)
    \/ server_restart

InitClient == Init /\ tracked = "ann"

SpecClient == InitClient /\ [][NextClient]_vars

(***************************************************************************)
(* SpecCadence: the frames of one connected reader who scrolls, requests   *)
(* taking time and failing.                                                *)
(***************************************************************************)
CadenceLogins ==
    [display_name : {"cat"}, user_color : {<<100, 150, 255>>}, password : {"", "pw"}]

CadenceInputs ==
    [avail : {FrameRect},
     scroll_delta : {0, -20000},
     keys : {{}},
     ui : {[on |-> "none"]},
     push_net : {"ok", "error"},
     pull_net : {"ok", "error"},
     push_ms : {0, NetMs},
     pull_ms : {0, NetMs}]

NextCadence ==
    \/ \E login_info \in CadenceLogins : attempt_connection(login_info, "ok")
    \/ back_to_login
    \/ \E inp \in CadenceInputs : reader_update(inp, MaxCadenceTime)
    \/ client_clock(NetMs, MaxCadenceTime)

SpecCadence == InitClient /\ [][NextCadence]_vars

(***************************************************************************)
(* SpecFollow: a connected reader who opens the Users window, follows ann  *)
(* and scrolls by hand, one input a frame; ann's updates reach the server. *)
(* The frames all fall within the 250 ms after the connection, so that the *)
(* reader's cache of the others is the one pulled in the first frame.      *)
(***************************************************************************)
FollowLogins ==
    [display_name : {"cat"}, user_color : {<<100, 150, 255>>}, password : {""}]

\* ann's start element: one the reader can scroll to, and the last one
FollowStarts == {1, 4}

FollowUpdates ==
    {PositionUpdate("ann", "#ff0000", Position(e, e), None) : e \in FollowStarts}

\* a tall window: the document laid out at the initial settings is a
\* little shorter than it
FollowRect == [width |-> 10000, height |-> 22000]

\* a frame without input from the reader
Quiet ==
    [avail |-> FollowRect, scroll_delta |-> 0, keys |-> {}, ui |-> [on |-> "none"],
     push_net |-> "ok", pull_net |-> "ok", push_ms |-> 0, pull_ms |-> 0]

\* the pointer at the middle of the minimap, and at or below its lower edge
MinimapRatios == {500, 1000}

FollowInputs ==
    {Quiet}
    \cup {[Quiet EXCEPT !.scroll_delta = d] : d \in {-5000, 5000}}
    \cup {[Quiet EXCEPT !.keys = {k}] :
            k \in {"ArrowDown", "ArrowUp", "Space", "Escape"}}
    \cup {[Quiet EXCEPT !.ui = [on |-> b]] : b \in {"Users", "Stop Following"}}
    \cup {[Quiet EXCEPT !.ui = [on |-> "user", value |-> "ann"]]}
    \cup {[Quiet EXCEPT !.ui = [on |-> "minimap", kind |-> k, value |-> v]] :
            k \in {"clicked", "dragged"}, v \in MinimapRatios}

NextFollow ==
    \/ \E login_info \in FollowLogins : attempt_connection(login_info, "ok")
    \/ \E inp \in FollowInputs : reader_update(inp, 0)
    \/ \E update \in FollowUpdates : update_position_handler(update)

SpecFollow == InitClient /\ [][NextFollow]_vars

(***************************************************************************)
(* SpecLayout: a connected reader who moves through the document with the  *)
(* minimap and Space and changes what the layout depends on: the font      *)
(* size and the paragraph spacing in the Options window, and the width of  *)
(* the text with the width adjuster.                                       *)
(***************************************************************************)
LayoutFontSizes == {100}

LayoutSpacings == {0}

LayoutPointerEvents ==
    {[on |-> "none"], [on |-> "Options"]}
    \cup {[on |-> "font_size", value |-> v] : v \in LayoutFontSizes}
    \cup {[on |-> "paragraph_spacing", value |-> v] : v \in LayoutSpacings}
    \cup {[on |-> "adjuster", kind |-> "dragged", value |-> 1500]}
    \cup {[on |-> "minimap", kind |-> "clicked", value |-> v] : v \in {300, 900}}

\* a frame's pointer event, or Space, or Space and the font size slider
LayoutInputs ==
    {[Quiet EXCEPT !.avail = FrameRect, !.ui = e] : e \in LayoutPointerEvents}
    \cup {[Quiet EXCEPT !.avail = FrameRect, !.keys = {"Space"}]}
    \cup {[Quiet EXCEPT !.avail = FrameRect, !.keys = {"Space"},
                        !.ui = [on |-> "font_size", value |-> v]] :
            v \in LayoutFontSizes \cup {INITIAL_FONT_SIZE}}

NextLayout ==
    \/ \E login_info \in FollowLogins : attempt_connection(login_info, "ok")
    \/ \E inp \in LayoutInputs : reader_update(inp, 0)

SpecLayout == InitClient /\ [][NextLayout]_vars

(***************************************************************************)
(* SpecRelayout: a connected reader, ann's position in the registry or     *)
(* not, who changes what the layout depends on in small steps: the font    *)
(* size by 0.1 up or down from the initial value, the width to 0.6 and to  *)
(* 1.2 above the initial one, and the font family.  Lengths are exact      *)
(* tenths here, so a change of 0.1 is not more than 0.1.                   *)
(***************************************************************************)
RelayoutFontSizes == {INITIAL_FONT_SIZE - 1, INITIAL_FONT_SIZE + 1}

RelayoutFamilies == {"English"}

\* the pointer's distance from the centre while it drags the width adjuster
RelayoutDistances == {3003, 3006}

RelayoutPointerEvents ==
    {[on |-> "none"], [on |-> "Options"]}
    \cup {[on |-> "font_family", value |-> v] : v \in RelayoutFamilies}
    \cup {[on |-> "font_size", value |-> v] : v \in RelayoutFontSizes}
    \cup {[on |-> "adjuster", kind |-> "dragged", value |-> v] : v \in RelayoutDistances}
    \cup {[on |-> "minimap", kind |-> "clicked", value |-> 900]}

RelayoutInputs ==
    {[Quiet EXCEPT !.avail = FrameRect, !.ui = e] : e \in RelayoutPointerEvents}

NextRelayout ==
    \/ \E login_info \in FollowLogins : attempt_connection(login_info, "ok")
    \/ \E inp \in RelayoutInputs : reader_update(inp, 0)
    \/ \E update \in PeerUpdates : update_position_handler(update)

SpecRelayout == InitClient /\ [][NextRelayout]_vars

(***************************************************************************)
(* SpecFollowLive: a connected reader who follows ann and gives no input   *)
(* but clicks in the Users window.  While the client is in Reader, frames  *)
(* keep coming: every frame asks for the next one (request_repaint_after,  *)
(* and request_repaint while a follow step is taken).                      *)
(***************************************************************************)
LiveInputs ==
    {[Quiet EXCEPT !.avail = FrameRect]}
    \cup {[Quiet EXCEPT !.avail = FrameRect, !.ui = [on |-> "Users"]]}
    \cup {[Quiet EXCEPT !.avail = FrameRect, !.ui = [on |-> "user", value |-> "ann"]]}

Frame == \E inp \in LiveInputs : reader_update(inp, 0)

NextFollowLive ==
    \/ \E login_info \in FollowLogins : attempt_connection(login_info, "ok")
    \/ Frame
    \/ \E update \in FollowUpdates : update_position_handler(update)

SpecFollowLive == InitClient /\ [][NextFollowLive]_vars /\ WF_vars(Frame)

(***************************************************************************)
(* SpecPeers: a reader of the document, or of a document without elements, *)
(* who pulls and follows ann, ann publishing positions inside the          *)
(* document, at its end and beyond it.                                     *)
(***************************************************************************)
EmptyDocument == [ServerDocument EXCEPT !.elements = << >>]

PeerDocuments == {ServerDocument, EmptyDocument}

PeerPositions == {Position(0, 1), Position(3, 1), Position(4, 9), Position(5, 5),
                  Position(7, 9)}

PeerPositionUpdates ==
    {PositionUpdate("ann", "#ff0000", p, None) : p \in PeerPositions}

InitPeers ==
    /\ password_hash = None
    /\ document \in PeerDocuments
    /\ users = << >>
    /\ srv_now = 0
    /\ next_sweep = 0
    /\ last = Response("start", None, STATUS_OK, None)
    /\ ThreadsInit
    /\ ClientInit
    /\ HistoryInit
    /\ tracked = "ann"

NextPeers ==
    \/ \E login_info \in FollowLogins : attempt_connection(login_info, "ok")
    \/ \E inp \in LiveInputs : reader_update(inp, 0)
    \/ \E update \in PeerPositionUpdates : update_position_handler(update)

SpecPeers == InitPeers /\ [][NextPeers]_vars

(***************************************************************************)
(* SpecResume: a reader who follows ann and gives no input but clicks in   *)
(* the Users window, pulling every 250 ms, while ann publishes a position  *)
(* inside the document or beyond it, stops publishing, is swept from the   *)
(* registry once 11 s have passed, and publishes again.                    *)
(***************************************************************************)
\* Under SpecResume the client clock runs from 0 to MaxResumeTime.
MaxResumeTime == 500

ResumePositions == {Position(1, 1), Position(7, 9)}

ResumeUpdates ==
    {PositionUpdate("ann", "#ff0000", p, None) : p \in ResumePositions}

InitResume == InitClient /\ password_hash = None

NextResume ==
    \/ \E login_info \in FollowLogins : attempt_connection(login_info, "ok")
    \/ \E inp \in LiveInputs : reader_update(inp, MaxResumeTime)
    \/ client_clock(FETCH_INTERVAL_MS, MaxResumeTime)
    \/ \E update \in ResumeUpdates : update_position_handler(update)
    \/ AdvanceClock(EXPIRY_SECS + 1, EXPIRY_SECS + 1)
    \/ heartbeat_cleanup

SpecResume == InitResume /\ [][NextResume]_vars

(***************************************************************************)
(* SpecHeadings: the reader of SpecLayout with a document of many          *)
(* headings: twelve of them and a paragraph.                               *)
(***************************************************************************)
HeadingsDocument ==
    [metadata |-> [title |-> Some("Contents")],
     elements |-> [i \in 1..13 |-> IF i <= 12 THEN Element("heading", 9)
                                   ELSE Element("text", 2000)]]

InitHeadings ==
    /\ password_hash = None
    /\ document = HeadingsDocument
    /\ users = << >>
    /\ srv_now = 0
    /\ next_sweep = 0
    /\ last = Response("start", None, STATUS_OK, None)
    /\ ThreadsInit
    /\ ClientInit
    /\ HistoryInit
    /\ tracked = "ann"

NextHeadings ==
    \/ \E login_info \in FollowLogins : attempt_connection(login_info, "ok")
    \/ \E inp \in LayoutInputs : reader_update(inp, 0)

SpecHeadings == InitHeadings /\ [][NextHeadings]_vars

(***************************************************************************)
(* SpecFollowStep: the follow step on its own, from every distance around  *)
(* its thresholds.  The reader has the document laid out at a font size,   *)
(* stands at a scroll offset and follows ann, whose start element is any   *)
(* element of the document or one past it.                                 *)
(***************************************************************************)
FollowFontSizes == {INITIAL_FONT_SIZE, 320}

FollowDistances ==
    {-20001, -20000, -19999, -5001, -5000, -4999, -201, -200, -199, -1, 0,
     1, 199, 200, 201, 4999, 5000, 5001, 19999, 20000, 20001}

\* the ReaderState of a reader who has set the font size, stands at
\* scroll_offset and follows ann
FollowingReader(font_size, scroll_offset, start_element) ==
    [ReaderState("cat", "#6496ff", None, ServerDocument) EXCEPT
        !.font_size = font_size,
        !.previous_font_size = font_size,
        !.last_layout_width = INITIAL_CONTENT_WIDTH,
        !.laid_out_elements = LayOut(ServerDocument.elements, INITIAL_CONTENT_WIDTH,
                                     font_size, INITIAL_PARAGRAPH_SPACING),
        !.scroll_offset = scroll_offset,
        !.other_users = [n \in {"ann"} |->
                            ConnectedUser("ann", "#ff0000",
                                          Position(start_element, start_element))],
        !.following_user = Some("ann")]

InitFollowStep ==
    /\ ServerInit /\ ThreadsInit /\ HistoryInit
    /\ password_hash = None
    /\ tracked = "ann"
    /\ cli_now = 0
    /\ tick = [step |-> "start", frame |-> 0, requests |-> << >>, login_hash |-> None,
               push |-> PushLog(<<0, 0>>, 0, FALSE, None),
               pull |-> PullLog(0, FALSE, FALSE, None)]
    /\ view = NoView
    /\ \E font_size \in FollowFontSizes, e \in 0..MaxPeerElement, d \in FollowDistances :
          \E laid \in {LayOut(ServerDocument.elements, INITIAL_CONTENT_WIDTH,
                              font_size, INITIAL_PARAGRAPH_SPACING)} :
          \E y \in {IF e < Len(laid) THEN laid[e + 1].y_position ELSE 0} :
             /\ y + d >= 0
             /\ state = Reader(FollowingReader(font_size, y + d, e))

NextFollowStep == follow_step

SpecFollowStep == InitFollowStep /\ [][NextFollowStep]_vars

(***************************************************************************)
(* Claims about the registry over time (Spec).                             *)
(***************************************************************************)

\* C1: a sweep removes exactly the records whose age at the sweep
\* (sweep time - last_heartbeat) is strictly over 10 s and leaves every other
\* record as it was, one aged exactly 10 s included; so right after a sweep
\* no record in a snapshot is older than 10 s.
C1_SweepRemovesExactlyExpired ==
    [][next_sweep' # next_sweep =>
          /\ DOMAIN users' =
                {k \in DOMAIN users : srv_now - users[k].last_heartbeat <= 10}
          /\ \A k \in DOMAIN users' : users'[k] = users[k]
          /\ \A k \in DOMAIN Snapshot(users') :
                srv_now' - users'[k].last_heartbeat <= 10]_vars

\* A sweep has just removed a record and kept one aged exactly 10 s.
C1_Witness ==
    /\ last.op = "sweep"
    /\ last.out # {}
    /\ \E k \in DOMAIN users : srv_now - users[k].last_heartbeat = 10

\* C2: a name upserted again within 10 s of its previous upsert, every time,
\* keeps its record through every sweep: from the first upsert of the run on
\* the record is in the registry and in every snapshot returned.
C2_RefreshedRecordSurvives ==
    run_start # -1 =>
        /\ tracked \in DOMAIN users
        /\ (last.op = "positions" /\ last.status = STATUS_OK) =>
                tracked \in DOMAIN last.out

\* More than 10 s into a run, a sweep has just removed the other name's
\* record and left the refreshed one.
C2_Witness ==
    /\ run_start # -1
    /\ srv_now - run_start > 10
    /\ last.op = "sweep"
    /\ last.out = Names \ {tracked}
    /\ tracked \in DOMAIN users

(***************************************************************************)
(* Claims about the endpoints (SpecReq).                                   *)
(***************************************************************************)

\* C3: an authorized upsert for a name replaces that name's whole record by
\* the submitted name, colour and position with last_heartbeat = now, nothing
\* of the old record surviving, and leaves every other name's record as it
\* was; no other step writes a record, so a name's record is always the one
\* its latest upsert wrote.
C3_UpsertReplacesWholeRecord ==
    [][/\ (last'.op = "update_position" /\ last'.status = STATUS_OK) =>
            /\ last'.req.name \in DOMAIN users'
            /\ users'[last'.req.name] =
                  [user |-> [name |-> last'.req.name,
                             color |-> last'.req.color,
                             position |-> last'.req.position],
                   last_heartbeat |-> srv_now']
            /\ \A k \in (DOMAIN users \cup DOMAIN users') \ {last'.req.name} :
                  k \in DOMAIN users /\ k \in DOMAIN users' /\ users'[k] = users[k]
       /\ \A k \in DOMAIN users' :
            \/ k \in DOMAIN users /\ users'[k] = users[k]
            \/ /\ last'.op = "update_position"
               /\ last'.status = STATUS_OK
               /\ last'.req.name = k]_vars

\* An upsert has just displaced a record that differed in colour, position
\* and heartbeat, while another name's record is stored.
C3_Witness ==
    /\ last.op = "update_position"
    /\ last.status = STATUS_OK
    /\ IsSome(last.out)
    /\ Unwrap(last.out).user.color # last.req.color
    /\ Unwrap(last.out).user.position # last.req.position
    /\ Unwrap(last.out).last_heartbeat < srv_now
    /\ DOMAIN users = Names

(***************************************************************************)
(* Claims about the server's threads (SpecLock).                           *)
(***************************************************************************)

\* The records an upsert for the name k can write.
Written(k) ==
    {ConnectedUser(u.name, u.color, u.position) : u \in {x \in LockUpdates : x.name = k}}

\* C4: with upserts, snapshot reads and sweeps running concurrently, every
\* record a snapshot returns is the record one completed upsert wrote, never
\* a mixture of two upserts or a half-written record, and the snapshot as a
\* whole is the registry as it stood at one instant between writes: while a
\* read is under way the registry does not change under it, and the map it
\* returns is the registry at the instant it returns.
C4_SnapshotIsOneRegistryState ==
    /\ \A t \in Readers : pc[t] = "r_iter" =>
          /\ lock.writer = None
          /\ \A k \in DOMAIN Unwrap(task[t]).user_map :
                /\ k \in DOMAIN users
                /\ Unwrap(task[t]).user_map[k] = users[k].user
                /\ Unwrap(task[t]).user_map[k] \in Written(k)
    /\ (last.op = "positions" /\ last.status = STATUS_OK /\ last.req # None) =>
          /\ last.out = Snapshot(users)
          /\ \A k \in DOMAIN last.out : last.out[k] \in Written(k)

\* A snapshot of both names has just been returned while an update that
\* would change one of its records and the sweeper both wait for the lock.
C4_Witness ==
    /\ last.op = "positions"
    /\ last.status = STATUS_OK
    /\ DOMAIN last.out = Names
    /\ pc[Sweeper] = "s_lock"
    /\ \E w \in Writers :
          /\ pc[w] = "w_lock"
          /\ last.out[Unwrap(task[w]).update.name].color # Unwrap(task[w]).update.color

(***************************************************************************)
(* Claims about the endpoints (SpecReq), continued.                        *)
(***************************************************************************)

GatedEndpoints == {"document", "images", "positions", "update_position"}

\* C5: on /document, /images, /positions and /update_position the gate lets
\* every request through when the server holds no secret; when it holds one,
\* a request gets through exactly when it carries a hash equal to the secret,
\* and a missing or different hash is answered 401.
C5_AuthGate ==
    last.op \in GatedEndpoints =>
        LET passed == last.status # 401
        IN  /\ ~IsSome(password_hash) => passed
            /\ IsSome(password_hash) =>
                    (passed <=> last.req.password_hash = password_hash)
            /\ ~passed => last.status = 401

\* A server holding a secret has just refused a /positions request that
\* carried no hash.
C5_Witness ==
    /\ IsSome(password_hash)
    /\ last.op = "positions"
    /\ last.req.password_hash = None
    /\ last.status = 401

\* C6: an /update_position request refused by the gate leaves the registry
\* as it was: no record inserted or replaced, no last_heartbeat refreshed.
C6_RejectedUpdateLeavesRegistry ==
    [][(last'.op = "update_position" /\ last'.status = 401) => users' = users]_vars

\* A request for a stored name has just been refused; the stored record
\* differs from the one submitted and keeps its older heartbeat.
C6_Witness ==
    /\ last.op = "update_position"
    /\ last.status = 401
    /\ last.req.name \in DOMAIN users
    /\ users[last.req.name].user.color # last.req.color
    /\ users[last.req.name].last_heartbeat < srv_now

(***************************************************************************)
(* Claims about the client (SpecClient, SpecCadence).                      *)
(***************************************************************************)

\* The step is one of the client's (its frame count moved).
ClientStepped == tick'.frame # tick.frame

\* The step is a frame of the client in the Reader state.
ReaderTicked == ClientStepped /\ tick'.step = "tick"

\* C7: when the server holds a secret and the password entered at login
\* hashes to it, every request the client sends to a gated endpoint
\* (/document while connecting, /positions on a pull, /update_position on a
\* push) carries that hash, none of them is answered 401, and a connection
\* attempt whose /document request is answered ends in the Reader state.
C7_ClientRequestsCarryHash ==
    [][(ClientStepped /\ IsSome(password_hash) /\ tick'.login_hash = password_hash) =>
          /\ \A i \in 1..Len(tick'.requests) :
                tick'.requests[i].endpoint \in {"document", "images", "positions",
                                                "update_position"} =>
                    /\ tick'.requests[i].password_hash = password_hash
                    /\ tick'.requests[i].status # 401
          /\ (/\ tick'.step = "connect"
              /\ Len(tick'.requests) = 2
              /\ tick'.requests[2].status # 0) => state'.kind = "Reader"]_vars

\* The server holds a secret, the reader entered the matching password, and
\* the connection attempt has ended in Error: /document went out without a
\* hash and was answered 401.
C7_Witness ==
    /\ IsSome(password_hash)
    /\ tick.step = "connect"
    /\ tick.login_hash = password_hash
    /\ Len(tick.requests) = 2
    /\ tick.requests[2] = Request("document", None, 401)
    /\ state.kind = "Error"

\* C8: in every frame in the Reader state a push is issued exactly when the
\* range computed in the frame differs from the range of the latest push,
\* or at least 250 ms have passed since the latest push returned, or no push
\* was issued yet; so an unchanged range is not pushed again before 250 ms,
\* and a changed range is pushed in the same frame.
C8_PushIffChangedOrElapsed ==
    [][ReaderTicked =>
          LET sent == tick.push.sent
              changed == IsSome(sent) /\ Unwrap(sent).range # tick'.push.range
              elapsed == IsSome(sent) /\ tick'.push.t0 - Unwrap(sent).at >= 250
              issued == \E i \in 1..Len(tick'.requests) :
                            tick'.requests[i].endpoint = "update_position"
          IN  /\ tick'.push.pushed <=> (~IsSome(sent) \/ changed \/ elapsed)
              /\ issued <=> tick'.push.pushed
              /\ (IsSome(sent) /\ ~changed /\ tick'.push.t0 - Unwrap(sent).at < 250)
                    => ~issued
              /\ changed => issued]_vars

\* A frame has just skipped the push: the range is the one sent less than
\* 250 ms ago, and that push itself had followed the first one by less than
\* 250 ms because the range had changed.
C8_Witness ==
    /\ tick.step = "tick"
    /\ ~tick.push.pushed
    /\ IsSome(tick.push.sent)
    /\ Unwrap(tick.push.sent).range = tick.push.range
    /\ tick.push.range = <<3, 4>>
    /\ Unwrap(tick.push.sent).at < 250
    /\ tick.push.t0 - Unwrap(tick.push.sent).at \in 1..249

\* C9: a pull that fails (no response, a body that is no UsersResponse, a
\* 401) leaves other_users as it was; other_users changes only in a frame
\* whose pull succeeded, and then to the snapshot that pull returned.
C9_FailedPullKeepsCache ==
    [][(state.kind = "Reader" /\ state'.kind = "Reader") =>
          /\ (ReaderTicked /\ tick'.pull.pulled /\ ~tick'.pull.ok) =>
                state'.reader.other_users = state.reader.other_users
          /\ state'.reader.other_users # state.reader.other_users =>
                /\ ReaderTicked
                /\ tick'.pull.pulled
                /\ tick'.pull.ok
                /\ state'.reader.other_users = Snapshot(users')]_vars

\* A pull has just been refused with 401 while the cache holds another
\* reader whom the registry no longer holds.
C9_Witness ==
    /\ state.kind = "Reader"
    /\ tick.step = "tick"
    /\ tick.pull.pulled
    /\ ~tick.pull.ok
    /\ \E i \in 1..Len(tick.requests) : tick.requests[i] = Request("positions", None, 401)
    /\ "ann" \in DOMAIN state.reader.other_users
    /\ "ann" \notin DOMAIN users

C11_ReaderLeftOnlyByDisconnect ==
    [][state.kind = "Reader" =>
          \/ state'.kind = "Reader"
          \/ /\ state' = Login
             /\ ReaderTicked
             /\ view'.input.ui.on = "Disconnect"]_vars

\* a frame whose push and pull both got no response, the client in Reader
C11_Witness ==
    /\ state.kind = "Reader"
    /\ tick.step = "tick"
    /\ tick.requests = <<Request("update_position", state.reader.password_hash, 0),
                         Request("positions", None, 0)>>
    /\ view.input.ui.on = "none"

\* C12: the frame that follows a frame whose pull failed attempts a pull
\* again, and a frame whose pull did not succeed leaves last_users_fetch as
\* it was; so the pull is attempted frame after frame until one succeeds.
C12_FailedPullIsRetried ==
    [][ReaderTicked =>
          /\ (tick.step = "tick" /\ tick.pull.pulled /\ ~tick.pull.ok)
                => tick'.pull.pulled
          /\ (~tick'.pull.ok /\ state'.kind = "Reader")
                => state'.reader.last_users_fetch = state.reader.last_users_fetch]_vars

\* a pull that succeeded in the frame right after one that failed, 250 ms
\* or more after the connection
C12_Witness ==
    /\ state.kind = "Reader"
    /\ view.retried
    /\ tick.pull.ok
    /\ tick.pull.t1 >= FETCH_INTERVAL_MS


(***************************************************************************)
(* Claims about following a reader (SpecFollowStep, SpecFollow).           *)
(***************************************************************************)

\* the followed reader's record in the cache, if any
Followed(r) ==
    IF IsSome(r.following_user) /\ Unwrap(r.following_user) \in DOMAIN r.other_users
    THEN Some(r.other_users[Unwrap(r.following_user)])
    ELSE None

\* targetY: the y_position of the followed reader's start element, if a
\* reader is followed and the element is in the layout
TargetY(r) ==
    IF IsSome(Followed(r))
       /\ Unwrap(Followed(r)).position.start_element < Len(r.laid_out_elements)
    THEN Some(r.laid_out_elements[Unwrap(Followed(r)).position.start_element + 1].y_position)
    ELSE None

\* C13: with a reader followed whose start element is in the layout, one
\* follow step at distance = |targetY - scroll_offset| puts the offset at
\* targetY when distance > 2000.0, and otherwise moves it towards targetY by
\* min(speed, distance), speed being 50.0 when distance > 500.0 and 20.0
\* when distance <= 500.0: at distance 2000.0 exactly the step is 50.0, at
\* 500.0 exactly it is 20.0.
C13_FollowStep ==
    [][(state.kind = "Reader" /\ IsSome(TargetY(state.reader))) =>
          LET target == Unwrap(TargetY(state.reader))
              before == state.reader.scroll_offset
              after == state'.reader.scroll_offset
              distance == Abs(target - before)
              by == Min(IF distance > 5000 THEN 500 ELSE 200, distance)
          IN  IF distance > 20000 THEN after = target
              ELSE /\ Abs(after - before) = by
                   /\ Abs(target - after) = distance - by]_vars

\* a follow step taken from 2000.0 away: it has moved the offset by 50.0
C13_Witness ==
    /\ state.kind = "Reader"
    /\ tick.step = "follow"
    /\ IsSome(TargetY(state.reader))
    /\ Abs(view.follow_by) = 500
    /\ Abs(Unwrap(TargetY(state.reader))
           - (state.reader.scroll_offset - view.follow_by)) = 20000


\* the inputs that scroll by hand: the wheel beyond its dead zone, the
\* arrow keys, Space, a click or drag on the minimap
ScrollsByHand(input) ==
    \/ Abs(input.scroll_delta) > 1
    \/ input.keys \cap {"ArrowUp", "ArrowDown", "Space"} # {}
    \/ input.ui.on = "minimap" /\ input.ui.kind \in {"clicked", "dragged"}

\* the manual inputs: those, Escape and Stop Following
ManualInputGiven(input) ==
    \/ ScrollsByHand(input)
    \/ "Escape" \in input.keys
    \/ input.ui.on = "Stop Following"

\* C14: a frame given a manual input (wheel beyond 0.1, ArrowUp, ArrowDown,
\* Space, Escape, Stop Following, a click or drag on the minimap) while a
\* reader is followed ends with nobody followed; and while nobody is
\* followed no frame's follow step moves scroll_offset, nobody being
\* followed until a frame in which the reader clicks a row of the Users
\* window.
C14_ManualInputEndsFollow ==
    [][(ReaderTicked /\ state'.kind = "Reader") =>
          /\ (IsSome(state.reader.following_user) /\ ManualInputGiven(view'.input))
                => state'.reader.following_user = None
          /\ state.reader.following_user = None => view'.follow_by = 0
          /\ (state.reader.following_user = None /\ view'.input.ui.on # "user")
                => state'.reader.following_user = None]_vars

\* C15: in a frame given an input that scrolls by hand, the follow step
\* leaves scroll_offset alone: the offset changes by the input only.
C15_InputFrameTakesNoFollowStep ==
    [][(ReaderTicked /\ ScrollsByHand(view'.input)) => view'.follow_by = 0]_vars

\* C16: if from some frame on the same reader is followed with the same
\* targetY, then from some frame on scroll_offset is targetY, whichever the
\* start element.
C16_FollowConverges ==
    \A e \in FollowStarts :
        <>[](state.kind = "Reader"
             /\ Followed(state.reader) # None
             /\ Unwrap(Followed(state.reader)).position.start_element = e
             /\ TargetY(state.reader) # None)
        => <>[](state.kind = "Reader"
                /\ TargetY(state.reader) = Some(state.reader.scroll_offset))


(***************************************************************************)
(* Claims about the layout and the anchor (SpecLayout).                    *)
(***************************************************************************)

\* the indices i of a layout with y_position[i] + height[i] > y
EndingAfter(laid_out, y) ==
    {i \in 0..(Len(laid_out) - 1) :
        laid_out[i + 1].y_position + laid_out[i + 1].height > y}

\* the element under the viewport centre at an offset: the smallest of
\* those indices, if any
UnderCentre(laid_out, scroll_offset, avail) ==
    LET hits == EndingAfter(laid_out, scroll_offset + avail.height \div 2)
    IN  IF hits = {} THEN None
        ELSE Some(CHOOSE i \in hits : \A j \in hits : i <= j)

\* C17: the anchor a relayout works with is the smallest index i of the old
\* layout with y_position[i] + height[i] > scroll_offset + viewport
\* height / 2, and there is none when no element qualifies, as when the old
\* layout is empty.
C17_AnchorIsFirstEndingAfterCentre ==
    [][(ReaderTicked /\ view'.relaid) =>
          LET old == state.reader.laid_out_elements
              hits == EndingAfter(old, state.reader.scroll_offset
                                       + FrameRect.height \div 2)
          IN  /\ hits = {} => view'.anchor = None
              /\ hits # {} => /\ IsSome(view'.anchor)
                              /\ Unwrap(view'.anchor) \in hits
                              /\ \A j \in hits : Unwrap(view'.anchor) <= j]_vars

\* a relayout whose anchor is an element other than the first, elements
\* before it ending above the centre
C17_Witness ==
    /\ state.kind = "Reader"
    /\ view.relaid
    /\ IsSome(view.anchor)
    /\ Unwrap(view.anchor) = 3

\* C18: a relayout with anchor a leaves scroll_offset at
\* max(0, y_position[a] - viewport height / 2) of the new layout when a is
\* within it, and as it was when a is not within it or there is no anchor;
\* restoring an anchor that is out of bounds reads no element; and no frame
\* ends with an anchor stored.
C18_AnchorRestored ==
    [][(ReaderTicked /\ state'.kind = "Reader") =>
          LET new == state'.reader.laid_out_elements
              before == state.reader.scroll_offset
              half == FrameRect.height \div 2
          IN  /\ state'.reader.anchor_element_index = None
              /\ view'.relaid =>
                    /\ IsSome(view'.restored)
                    /\ (IsSome(view'.anchor) /\ Unwrap(view'.anchor) < Len(new))
                          => Unwrap(view'.restored)
                             = Max(0, new[Unwrap(view'.anchor) + 1].y_position - half)
                    /\ (~IsSome(view'.anchor) \/ Unwrap(view'.anchor) >= Len(new))
                          => Unwrap(view'.restored) = before
                    /\ \A a \in Len(new)..(Len(new) + 1) :
                          RestoreScroll(new, Some(a), FrameRect, before) = before]_vars

\* a relayout whose anchor lies less than half a viewport from the top of
\* the new layout: the offset restored is 0
C18_Witness ==
    /\ state.kind = "Reader"
    /\ view.relaid
    /\ IsSome(view.anchor)
    /\ Unwrap(view.anchor) > 0
    /\ state.reader.laid_out_elements[Unwrap(view.anchor) + 1].y_position
          < FrameRect.height \div 2
    /\ view.restored = Some(0)

\* C19 as stated: after a relayout with anchor a, the element under the
\* viewport centre at the offset restored is a, wherever a lies.
C19_AnchorUnderCentreAgain ==
    [][(ReaderTicked /\ state'.kind = "Reader" /\ view'.relaid
        /\ IsSome(view'.anchor)) =>
          UnderCentre(state'.reader.laid_out_elements, Unwrap(view'.restored),
                      FrameRect) = view'.anchor]_vars

\* C19 amended: after a relayout with anchor a whose y_position in the new
\* layout is at least half the viewport height, so that the offset restored
\* is not clamped to 0, the element under the viewport centre at the offset
\* restored is a.
C19_AnchorUnderCentreUnlessClamped ==
    [][(ReaderTicked /\ state'.kind = "Reader" /\ view'.relaid
        /\ IsSome(view'.anchor)
        /\ state'.reader.laid_out_elements[Unwrap(view'.anchor) + 1].y_position
              >= FrameRect.height \div 2) =>
          UnderCentre(state'.reader.laid_out_elements, Unwrap(view'.restored),
                      FrameRect) = view'.anchor]_vars

\* a relayout after a change of font size or spacing, the anchor half a
\* viewport or more down the new layout and under the centre again
C19_Witness ==
    /\ state.kind = "Reader"
    /\ view.relaid
    /\ IsSome(view.anchor)
    /\ state.reader.last_layout_width = INITIAL_CONTENT_WIDTH
    /\ (state.reader.font_size # INITIAL_FONT_SIZE
          \/ state.reader.paragraph_spacing # INITIAL_PARAGRAPH_SPACING)
    /\ state.reader.laid_out_elements[Unwrap(view.anchor) + 1].y_position
          > FrameRect.height \div 2
    /\ UnderCentre(state.reader.laid_out_elements, Unwrap(view.restored), FrameRect)
          = view.anchor

\* C20: a layout starts at y_position 0 and each element starts where the
\* one before it ends plus its spacing, twice paragraph_spacing after a
\* Heading and paragraph_spacing after any other element; so y_position
\* never decreases along the layout.
C20_LayoutRecurrence ==
    [][(ReaderTicked /\ state'.kind = "Reader" /\ view'.relaid) =>
          LET new == state'.reader.laid_out_elements
              elements == state.reader.document.elements
              spacing(i) == IF elements[i].kind = "heading"
                            THEN 2 * state.reader.paragraph_spacing
                            ELSE state.reader.paragraph_spacing
          IN  /\ Len(new) = Len(elements)
              /\ Len(new) > 0 => new[1].y_position = 0
              /\ \A i \in 1..(Len(new) - 1) :
                    /\ new[i + 1].y_position
                          = new[i].y_position + new[i].height + spacing(i)
                    /\ new[i + 1].y_position >= new[i].y_position]_vars

\* a layout made at font size 10.0 with the paragraph spacing still 10.0:
\* the element after the heading starts 20.0 below the heading's end
C20_Witness ==
    /\ state.kind = "Reader"
    /\ view.relaid
    /\ state.reader.previous_font_size = 100
    /\ state.reader.previous_paragraph_spacing = INITIAL_PARAGRAPH_SPACING
    /\ state.reader.laid_out_elements[2].y_position
          = state.reader.laid_out_elements[1].height + 200


\* C21: where a Reader frame computes the visible range, and when the frame
\* ends, the layout has one element for each element of the document, in
\* the document's order, whatever changes of width, font size and spacing
\* came before.  (Nothing after the layout stage of a frame touches
\* laid_out_elements, so the layout the range is computed from is the one
\* the frame ends with.)
C21_LayoutCoversDocument ==
    [][(ReaderTicked /\ state'.kind = "Reader") =>
          LET laid_out == state'.reader.laid_out_elements
              elements == state'.reader.document.elements
          IN  /\ Len(laid_out) = Len(elements)
              /\ \A i \in 1..Len(elements) :
                    laid_out[i].text = ElementTextLen(elements[i])
              /\ tick'.push.range[1] <= Max(Len(elements) - 1, 0)
              /\ tick'.push.range[2] <= Max(Len(elements) - 1, 0)]_vars

\* a frame that ends with all five elements laid out, the font size, the
\* spacing and the width all changed since the connection and the font
\* size changed in this very frame
C21_Witness ==
    /\ state.kind = "Reader"
    /\ tick.step = "tick"
    /\ view.relaid
    /\ view.input.ui.on = "font_size"
    /\ state.reader.font_size # INITIAL_FONT_SIZE
    /\ state.reader.paragraph_spacing # INITIAL_PARAGRAPH_SPACING
    /\ state.reader.last_layout_width # INITIAL_CONTENT_WIDTH
    /\ Len(state.reader.laid_out_elements) = 5


(***************************************************************************)
(* Claims about when and from what the layout is made (SpecRelayout).      *)
(***************************************************************************)

\* The layout a reader who has just connected is given by its first layout
\* stage, were the document, the width, the font and the spacing those of r.
FreshLayout(r, avail) ==
    LayoutStage([ReaderState(r.user_name, r.user_color, r.password_hash, r.document)
                    EXCEPT !.desired_content_width = r.desired_content_width,
                           !.selected_font_family = r.selected_font_family,
                           !.font_size = r.font_size,
                           !.paragraph_spacing = r.paragraph_spacing],
                avail).laid_out_elements

\* C22: the layout depends on the document, the width, the font, its size
\* and the paragraph spacing alone: whenever a frame lays the document out,
\* whatever the layout, the scroll offset, the anchor and the cache of the
\* other readers were, every element gets the y_position and the height it
\* gets in the first layout of a reader who has just connected and has the
\* same document, width, font, size and spacing.
C22_LayoutDependsOnParametersOnly ==
    [][(ReaderTicked /\ state'.kind = "Reader" /\ view'.relaid) =>
          LET new == state'.reader.laid_out_elements
              fresh == FreshLayout(state.reader, FrameRect)
          IN  /\ Len(new) = Len(fresh)
              /\ \A i \in 1..Len(fresh) :
                    /\ new[i].y_position = fresh[i].y_position
                    /\ new[i].height = fresh[i].height]_vars

\* the document laid out anew at font size 18.1 and width 601.2 by a reader
\* who had a layout, was scrolled down and had ann in the cache
C22_Witness ==
    /\ state.kind = "Reader"
    /\ view.relaid
    /\ IsSome(view.anchor)
    /\ Unwrap(view.restored) > 0
    /\ DOMAIN state.reader.other_users # {}
    /\ state.reader.font_size = INITIAL_FONT_SIZE + 1
    /\ state.reader.last_layout_width = 6012
    /\ state.reader.laid_out_elements[1].height
          = GalleyHeight(ElementTextLen(state.reader.document.elements[1]), 6012,
                         INITIAL_FONT_SIZE + 1)


\* The font sizes and paragraph spacings at which the layout r holds was
\* made: those at which the document laid out at r's last layout width
\* comes out as r's layout.
LaidOutWith(r) ==
    {p \in (RelayoutFontSizes \cup {INITIAL_FONT_SIZE}) \X {INITIAL_PARAGRAPH_SPACING} :
        r.laid_out_elements
            = LayOut(r.document.elements, r.last_layout_width, p[1], p[2])}

\* C23: a Reader frame that starts with the content width more than 1.0
\* away from the width of the last layout, or with a font family other than
\* the last layout's, or with the font size or the paragraph spacing more
\* than 0.1 away from the value the last layout was made with, lays the
\* whole document out anew in that frame, every element from y_position 0
\* on at the frame's width, size and spacing; the width is compared with
\* the last layout's, so changes of less than the tolerance add up.
C23_ChangedParametersForceRelayout ==
    [][(ReaderTicked /\ state.kind = "Reader" /\ state'.kind = "Reader"
          /\ state.reader.laid_out_elements # << >>) =>
          LET r == state.reader
              changed ==
                \/ Abs(ContentWidth(r, FrameRect) - r.last_layout_width) > 10
                \/ r.selected_font_family # r.previous_font_family
                \/ \E p \in LaidOutWith(r) :
                      \/ Abs(r.font_size - p[1]) > 1
                      \/ Abs(r.paragraph_spacing - p[2]) > 1
          IN  changed =>
                /\ view'.relaid
                /\ state'.reader.laid_out_elements
                      = LayOut(r.document.elements, ContentWidth(r, FrameRect),
                               r.font_size, r.paragraph_spacing)]_vars


\* C24: the visible range a Reader frame computes, and publishes if it
\* pushes, starts at the first element whose bottom edge (y_position +
\* height) lies below the scroll offset and ends at the first element whose
\* bottom edge lies below the scroll offset plus the viewport height, or at
\* the last element if there is none; the Position pushed carries that
\* range with start_percent 0.0 and end_percent 1.0.
C24_VisibleRange ==
    [][(ReaderTicked /\ state.kind = "Reader" /\ state'.kind = "Reader") =>
          LET laid_out == state'.reader.laid_out_elements
              scroll_offset == IF view'.relaid THEN Unwrap(view'.restored)
                               ELSE state.reader.scroll_offset
              starts == EndingAfter(laid_out, scroll_offset)
              ends == EndingAfter(laid_out, scroll_offset + FrameRect.height)
              range == tick'.push.range
          IN  /\ starts # {} =>
                    /\ range[1] \in starts
                    /\ \A i \in starts : range[1] <= i
              /\ ends # {} =>
                    /\ range[2] \in ends
                    /\ \A i \in ends : range[2] <= i
              /\ (ends = {} /\ Len(laid_out) > 0) => range[2] = Len(laid_out) - 1
              /\ tick'.push.pushed =>
                    /\ state.reader.user_name \in DOMAIN users'
                    /\ users'[state.reader.user_name].user.position
                          = [start_element |-> range[1], start_percent |-> 0,
                             end_element |-> range[2], end_percent |-> 100]]_vars

\* a push from a frame that laid the document out anew and restored an
\* offset from which the viewport reaches past the last element: the range
\* starts after the first element and ends at the last one
C24_Witness ==
    /\ state.kind = "Reader"
    /\ tick.step = "tick"
    /\ tick.push.pushed
    /\ view.relaid
    /\ EndingAfter(state.reader.laid_out_elements,
                   Unwrap(view.restored) + FrameRect.height) = {}
    /\ tick.push.range[1] > 0
    /\ tick.push.range[2] = Len(state.reader.laid_out_elements) - 1
    /\ users[state.reader.user_name].user.position.start_element = tick.push.range[1]


\* C25: the range a Reader frame computes and pushes comes from the layout
\* of that frame.  When the frame lays the document out anew, the range is
\* taken from the layout made for the width, font size and spacing the
\* frame started with, at the offset the anchor was restored to, and never
\* from the layout or the offset the frame started with; when it does not,
\* the range is taken from the layout it holds.  Either way the layout the
\* range is taken from was made for the parameters the frame started with:
\* for a width within 1.0 of the frame's and a font size and a spacing
\* within 0.1 of the frame's.
C25_RangeFromThisFramesLayout ==
    [][(ReaderTicked /\ state.kind = "Reader" /\ state'.kind = "Reader") =>
          LET r == state.reader
              laid_out == state'.reader.laid_out_elements
              scroll_offset == IF view'.relaid
                               THEN RestoreScroll(laid_out, view'.anchor, FrameRect,
                                                  r.scroll_offset)
                               ELSE r.scroll_offset
              range == <<UnwrapOr(PositionEndingAfter(laid_out, scroll_offset), 0),
                         UnwrapOr(PositionEndingAfter(laid_out,
                                                      scroll_offset + FrameRect.height),
                                  Max(Len(laid_out) - 1, 0))>>
          IN  /\ tick'.push.range = range
              /\ laid_out = IF view'.relaid
                            THEN LayOut(r.document.elements, ContentWidth(r, FrameRect),
                                        r.font_size, r.paragraph_spacing)
                            ELSE r.laid_out_elements
              /\ tick'.push.pushed =>
                    /\ state'.reader.last_sent_position = Some(range)
                    /\ users'[r.user_name].user.position.start_element = range[1]
                    /\ users'[r.user_name].user.position.end_element = range[2]
              /\ Abs(ContentWidth(r, FrameRect) - state'.reader.last_layout_width) <= 10
              /\ \E p \in LaidOutWith(state'.reader) :
                    /\ Abs(r.font_size - p[1]) <= 1
                    /\ Abs(r.paragraph_spacing - p[2]) <= 1]_vars


(***************************************************************************)
(* Claims about the connection (SpecClient).                               *)
(***************************************************************************)

\* C26: a connection attempt that fails, the display name being empty, the
\* server not reachable, /health answered with a status that is not a
\* success, or /document not reachable, answered with such a status or
\* with a body that is not a document, ends in the Error state with a
\* message and not in the Reader state; and the only step the client takes
\* from Error is Back to Login, which ends in Login, where the next step is
\* a connection attempt.
C26_FailedConnectionEndsInError ==
    [][ClientStepped =>
          /\ tick'.step = "connect" =>
                LET click == view'.input.ui
                    failed ==
                      \/ Trim(click.display_name) = ""
                      \/ click.net # "ok"
                      \/ \E i \in 1..Len(tick'.requests) :
                            tick'.requests[i].status \notin 200..299
                IN  failed => /\ state'.kind = "Error"
                              /\ state'.message # ""
          /\ state.kind = "Error" => (tick'.step = "back" /\ state' = Login)
          /\ state = Login => tick'.step = "connect"]_vars

\* /health answered 503: the client in Error, the document not asked for
C26_Witness ==
    /\ state.kind = "Error"
    /\ tick.step = "connect"
    /\ view.input.ui.net = "health_status"
    /\ tick.requests = <<Request("health", None, 503)>>


(***************************************************************************)
(* Claims about the registry under one name (SpecLock).                    *)
(***************************************************************************)

\* The step completes an update of name k: a writer leaves its insert.
Pushes(k) ==
    \E t \in Writers :
        /\ pc[t] = "w_store"
        /\ pc'[t] = "idle"
        /\ Unwrap(task[t]).update.name = k

\* The step is part of an insert under name k.
Inserting(k) ==
    \E t \in Writers :
        /\ pc[t] \in {"w_insert", "w_store"}
        /\ Unwrap(task[t]).update.name = k

\* C27: readers who publish under one display name share one record.  The
\* registry holds each record under its name, so never two for a name; an
\* update that completes leaves under its name exactly what it carried,
\* whatever record of whichever reader was there; between updates of a name
\* its record does not change while it stays; and a snapshot returns the
\* registry's records: so under a name it shows the position of the update
\* that completed last.
C27_OneRecordPerName ==
    [][/\ \A k \in DOMAIN users' : users'[k].user.name = k
       /\ \A k \in Names :
             /\ Pushes(k) =>
                   \E t \in Writers :
                      /\ pc[t] = "w_store" /\ pc'[t] = "idle"
                      /\ k \in DOMAIN users'
                      /\ users'[k].user
                            = ConnectedUser(k, Unwrap(task[t]).update.color,
                                            Unwrap(task[t]).update.position)
             /\ (~Inserting(k) /\ k \in DOMAIN users /\ k \in DOMAIN users') =>
                   users'[k].user = users[k].user
             /\ (~Inserting(k) /\ k \notin DOMAIN users) => k \notin DOMAIN users'
       /\ (last'.op = "positions" /\ last'.status = STATUS_OK /\ last' # last) =>
             last'.out = Snapshot(users)]_vars

\* an update of ann has just replaced the record another reader had stored
\* under that name, with another colour and position, and that reader's
\* next update waits for the lock
C27_Witness ==
    /\ last.op = "update_position"
    /\ last.status = STATUS_OK
    /\ IsSome(last.out)
    /\ last.req.name = "ann"
    /\ Unwrap(last.out).user.color # last.req.color
    /\ Unwrap(last.out).user.position # last.req.position
    /\ users["ann"].user.position = last.req.position
    /\ \E w \in Writers :
          /\ pc[w] = "w_lock"
          /\ Unwrap(task[w]).update.name = "ann"
          /\ Unwrap(task[w]).update.color = Unwrap(last.out).user.color


(***************************************************************************)
(* Claims about the age of what a snapshot returns (Spec).                 *)
(***************************************************************************)

\* C28: a snapshot returns live records only: when GET /positions has just
\* been answered, no record in the answer has a last_heartbeat more than
\* 10 s before the time of the snapshot.
C28_SnapshotOnlyLive ==
    (last.op = "positions" /\ last.status = STATUS_OK) =>
        \A k \in DOMAIN last.out :
            /\ k \in DOMAIN users
            /\ srv_now - users[k].last_heartbeat <= EXPIRY_SECS


(***************************************************************************)
(* Claims about the lock under fair scheduling (SpecLockFair).             *)
(***************************************************************************)

C30_PeerPositionsReadInBounds ==
    [][/\ \A update \in PeerPositionUpdates :
             (last'.op = "update_position" /\ last'.req = update
                /\ last'.status = STATUS_OK /\ last' # last) =>
                   users'[update.name].user.position = update.position
       /\ (ReaderTicked /\ state.kind = "Reader" /\ state'.kind = "Reader") =>
             LET r == state'.reader
                 len == Len(r.laid_out_elements)
             IN  /\ \A k \in BarUsers(r) :
                       LET user == r.other_users[k]
                       IN  /\ PeerBarReads(r, user) \subseteq 0..(len - 1)
                           /\ user.position.start_element >= len =>
                                 PeerBarReads(r, user) = {}
                           /\ user.position.start_element < len =>
                                 PeerBarReads(r, user)
                                    = {user.position.start_element,
                                       IF user.position.end_element > len - 1
                                       THEN len - 1
                                       ELSE user.position.end_element}
                 /\ FollowReads(r) \subseteq 0..(len - 1)
                 /\ \A k \in DOMAIN state.reader.other_users :
                       (/\ state.reader.following_user = Some(k)
                        /\ k \in DOMAIN r.other_users
                        /\ r.other_users[k].position.start_element >= len) =>
                             view'.follow_by = 0]_vars

\* the reader follows ann, whose range in the cache starts at the last
\* element of the layout and ends beyond it, while the server holds for ann
\* a range that starts beyond the document
C30_Witness ==
    /\ state.kind = "Reader"
    /\ tick.step = "tick"
    /\ state.reader.following_user = Some("ann")
    /\ "ann" \in DOMAIN state.reader.other_users
    /\ state.reader.other_users["ann"].position = Position(4, 9)
    /\ PeerBarReads(state.reader, state.reader.other_users["ann"]) = {4}
    /\ users["ann"].user.position = Position(7, 9)


(***************************************************************************)
(* Claims about the follow step's approach (SpecFollowStep).               *)
(***************************************************************************)

C32_LostPeerIsKeptAndResumed ==
    [][(ReaderTicked /\ state.kind = "Reader" /\ state'.kind = "Reader") =>
          LET following == state.reader.following_user
              cache == state'.reader.other_users
              len == Len(state'.reader.laid_out_elements)
              absent == IsSome(following) /\ Unwrap(following) \notin DOMAIN cache
              outside == /\ IsSome(following)
                         /\ Unwrap(following) \in DOMAIN cache
                         /\ cache[Unwrap(following)].position.start_element >= len
              found == /\ IsSome(following)
                       /\ Unwrap(following) \in DOMAIN cache
                       /\ cache[Unwrap(following)].position.start_element < len
          IN  /\ (~IsSome(following) \/ absent \/ outside) => view'.follow_by = 0
              /\ ((absent \/ outside) /\ ~ManualInputGiven(view'.input)
                     /\ view'.input.ui.on # "user") =>
                    state'.reader.following_user = following
              /\ (found /\ ~view'.relaid) =>
                    \/ view'.follow_by # 0
                    \/ state'.reader.laid_out_elements[
                          cache[Unwrap(following)].position.start_element + 1].y_position
                       = state.reader.scroll_offset]_vars

\* a frame has pulled a snapshot without ann, whom the reader follows: ann
\* is still followed and the follow step has not moved the offset, which
\* earlier follow steps had moved
C32_Witness ==
    /\ state.kind = "Reader"
    /\ tick.step = "tick"
    /\ tick.pull.ok
    /\ state.reader.following_user = Some("ann")
    /\ "ann" \notin DOMAIN state.reader.other_users
    /\ view.follow_by = 0
    /\ state.reader.scroll_offset > 0

(***************************************************************************)
(* Claims about a push that fails (SpecCadence).                           *)
(***************************************************************************)

\* The push of the step before this one was issued and not accepted: no
\* response came, or one with a status that is not 200.
PushFailed(t) ==
    /\ t.step = "tick"
    /\ t.push.pushed
    /\ t.requests[1].status # STATUS_OK

\* C33: a frame that issues a push sets last_sent_position to the range it
\* computed and last_position_update to the instant the request returned,
\* whether the push was accepted or not, and a frame that issues none
\* leaves both alone; a push that was not accepted leaves the registry as
\* it was; and in the frame after one whose push failed a push is issued
\* exactly when the range differs from the one that failed or 250 ms have
\* passed since it returned.
C33_FailedPushCountsAsSent ==
    [][(ReaderTicked /\ state.kind = "Reader" /\ state'.kind = "Reader") =>
          /\ tick'.push.pushed =>
                /\ state'.reader.last_sent_position = Some(tick'.push.range)
                /\ state'.reader.last_position_update = Some(tick'.pull.t1)
          /\ ~tick'.push.pushed =>
                /\ state'.reader.last_sent_position = state.reader.last_sent_position
                /\ state'.reader.last_position_update
                      = state.reader.last_position_update
          /\ PushFailed(tick') => users' = users
          /\ PushFailed(tick) =>
                (tick'.push.pushed <=>
                    \/ tick'.push.range # tick.push.range
                    \/ tick'.push.t0 - tick.pull.t1 >= PUSH_INTERVAL_MS)]_vars

\* a push of a new range has just failed: the reader holds it as the range
\* last sent, the registry holds the range of the push before
C33_Witness ==
    /\ state.kind = "Reader"
    /\ PushFailed(tick)
    /\ tick.requests[1].status = 0
    /\ state.reader.last_sent_position = Some(tick.push.range)
    /\ state.reader.user_name \in DOMAIN users
    /\ users[state.reader.user_name].user.position
          # Position(tick.push.range[1], tick.push.range[2])

(***************************************************************************)
(* Claims about the keys of the registry (SpecReq).                        *)
(***************************************************************************)

\* C34: every record of the registry is stored under the name of the
\* ConnectedUser it holds, and every entry of a snapshot returned by
\* /positions has the name of its user as its key.
C34_KeyIsName ==
    /\ \A key \in DOMAIN users : users[key].user.name = key
    /\ (last.op = "positions" /\ last.status = STATUS_OK) =>
          \A key \in DOMAIN last.out : last.out[key].name = key

\* a snapshot of two records has just been returned, each under its name
C34_Witness ==
    /\ last.op = "positions"
    /\ last.status = STATUS_OK
    /\ DOMAIN last.out = Names
    /\ \A key \in Names : last.out[key].name = key
    /\ last.out["ann"].color # last.out["bob"].color

(***************************************************************************)
(* Claims about how long a record stays (Spec).                            *)
(***************************************************************************)

\* C35 as stated: a record is removed strictly later than 10 s and no later
\* than 15 s after its last heartbeat: the step that removes it finds it
\* more than 10 s and at most 15 s old, no record of the registry is more
\* than 15 s old, and no snapshot returns one that is.
C35_EvictedWithin15s ==
    [][\A k \in Names :
          /\ (k \in DOMAIN users /\ k \notin DOMAIN users') =>
                /\ srv_now - users[k].last_heartbeat > EXPIRY_SECS
                /\ srv_now - users[k].last_heartbeat
                      <= EXPIRY_SECS + SWEEP_INTERVAL_SECS
          /\ k \in DOMAIN users' =>
                srv_now' - users'[k].last_heartbeat
                   <= EXPIRY_SECS + SWEEP_INTERVAL_SECS
          /\ (last'.op = "positions" /\ last'.status = STATUS_OK /\ last' # last
                /\ k \in DOMAIN last'.out) =>
                srv_now - users[k].last_heartbeat
                   <= EXPIRY_SECS + SWEEP_INTERVAL_SECS]_vars

\* C35 amended: a record leaves the registry only by a sweep, the first one
\* that runs when the record is more than 10 s old: strictly later than
\* 10 s after its last heartbeat, by a sweep whose timer fired no later
\* than 15 s after it, and so no later than 15 s after it plus the time by
\* which the sweeper runs late; no record of the registry and none of a
\* snapshot is older than that.
C35_EvictedWithin15sOfTimer ==
    [][\A k \in Names :
          /\ (k \in DOMAIN users /\ k \notin DOMAIN users') =>
                /\ next_sweep' # next_sweep
                /\ srv_now - users[k].last_heartbeat > EXPIRY_SECS
                /\ next_sweep - users[k].last_heartbeat
                      <= EXPIRY_SECS + SWEEP_INTERVAL_SECS
                /\ srv_now - users[k].last_heartbeat
                      <= EXPIRY_SECS + SWEEP_INTERVAL_SECS + MaxSweepLag
          /\ (next_sweep' # next_sweep /\ k \in DOMAIN users
                /\ srv_now - users[k].last_heartbeat > EXPIRY_SECS) =>
                k \notin DOMAIN users'
          /\ k \in DOMAIN users' =>
                srv_now' - users'[k].last_heartbeat
                   <= EXPIRY_SECS + SWEEP_INTERVAL_SECS + MaxSweepLag
          /\ (last'.op = "positions" /\ last'.status = STATUS_OK /\ last' # last
                /\ k \in DOMAIN last'.out) =>
                srv_now - users[k].last_heartbeat
                   <= EXPIRY_SECS + SWEEP_INTERVAL_SECS + MaxSweepLag]_vars

\* the sweep due at 10 s has just run at 11 s: it has removed ann's record,
\* 11 s old, and kept bob's, 10 s old
C35_Witness ==
    /\ last.op = "sweep"
    /\ last.out = {"ann"}
    /\ srv_now = EXPIRY_SECS + 1
    /\ next_sweep = EXPIRY_SECS + SWEEP_INTERVAL_SECS
    /\ "bob" \in DOMAIN users
    /\ srv_now - users["bob"].last_heartbeat = EXPIRY_SECS

(***************************************************************************)
(* Claims about reading and liveness (SpecReads).                          *)
(***************************************************************************)

\* C36: GET /health, /document, /images/{id} and /positions leave the
\* registry as it is, every last_heartbeat included, whether the request is
\* let through or refused; the last_heartbeat of a record changes only by
\* an update of its name that is let through, and then to the instant of
\* that update; so a sweep that runs more than 10 s after the last accepted
\* update of a name removes its record, whatever was read in between.
C36_ReadingRefreshesNothing ==
    [][/\ last'.op \in {"health", "document", "images", "positions"} =>
             users' = users
       /\ \A k \in DOMAIN users \cap DOMAIN users' :
             users'[k].last_heartbeat # users[k].last_heartbeat =>
                /\ last'.op = "update_position"
                /\ last'.status = STATUS_OK
                /\ last'.req.name = k
                /\ users'[k].last_heartbeat = srv_now
       /\ \A k \in DOMAIN users :
             (next_sweep' # next_sweep
                /\ srv_now - users[k].last_heartbeat > EXPIRY_SECS) =>
                   k \notin DOMAIN users']_vars

\* a snapshot has just returned the record of ann, who was upserted 11 s
\* ago: its last_heartbeat is the one of that upsert, and the sweep that is
\* due will remove it
C36_Witness ==
    /\ last.op = "positions"
    /\ last.status = STATUS_OK
    /\ "ann" \in DOMAIN last.out
    /\ srv_now - users["ann"].last_heartbeat = EXPIRY_SECS + 1
    /\ srv_now >= next_sweep

(***************************************************************************)
(* Claims about the bounds of the scroll offset (SpecFollow, SpecHeadings).*)
(***************************************************************************)

\* C37: at the start of every Reader frame, and so in every state of the
\* Reader, scroll_offset is not negative.
C37_ScrollOffsetNotNegative ==
    state.kind = "Reader" => state.reader.scroll_offset >= 0

\* C38: in every Reader frame the upper bound the clamp applies to
\* scroll_offset, total_height - viewport height + 100.0, is at least the
\* bottom edge of the last element of the frame's layout minus the viewport
\* height: the last element can be scrolled fully into view.
C38_LastElementScrollsIntoView ==
    [][(ReaderTicked /\ state.kind = "Reader" /\ state'.kind = "Reader"
          /\ Len(state'.reader.laid_out_elements) > 0) =>
          LET laid_out == state'.reader.laid_out_elements
              n == Len(laid_out)
              total_height == TotalHeight(laid_out, n, state.reader.paragraph_spacing)
          IN  total_height - FrameRect.height + SCROLL_BOTTOM_SLACK
                 >= laid_out[n].y_position + laid_out[n].height
                    - FrameRect.height]_vars

(***************************************************************************)
(* Claims about the positions a reader publishes (SpecLayout).             *)
(***************************************************************************)

\* C39: every Position a Reader frame pushes has start_element <=
\* end_element, both of them indices of elements of the document, and
\* start_element an element that ends below the top of the viewport, the
\* offset the range was computed at: an element the viewport's top cuts or
\* one that follows it.
C39_PushedPositionIsValid ==
    [][(ReaderTicked /\ state.kind = "Reader" /\ state'.kind = "Reader"
          /\ tick'.push.pushed) =>
          LET range == tick'.push.range
              laid_out == state'.reader.laid_out_elements
              scroll_offset == IF view'.relaid THEN Unwrap(view'.restored)
                               ELSE state.reader.scroll_offset
          IN  /\ users'[state.reader.user_name].user.position
                    = Position(range[1], range[2])
              /\ range[1] <= range[2]
              /\ range[1] < Len(state.reader.document.elements)
              /\ range[2] < Len(state.reader.document.elements)
              /\ laid_out[range[1] + 1].y_position + laid_out[range[1] + 1].height
                    > scroll_offset]_vars

=============================================================================
